---------------------------- MODULE Spec2Model ----------------------------
(***************************************************************************)
(* Distill: newsletter pipeline.  Model of the three pipeline stages       *)
(*   search    (searxngService.js,  SearXNGService)                        *)
(*   scrape    (articleScraper,     ArticleScraper)                        *)
(*   summarize (contentSummarizer,  ContentSummarizer)                     *)
(* of their units, taken alone:                                            *)
(*   one answered search request (SearXNGService.parseSearchResults)       *)
(*   one fetch                   (ArticleScraper.scrapeUrl)                *)
(*   the text of a page          (ArticleScraper.extractContent, cleanText)*)
(* and of the run over the forwarded emails (app.js): processEmails,       *)
(* processSingleEmail, GmailService.getForwardedEmails and                 *)
(* DatabaseService.findOrCreateUser.                                       *)
(* Each stage is an async function running on the single JavaScript        *)
(* thread: an action of the model is the code executed between two         *)
(* suspension points (an await of a timer or of a network call).           *)
(***************************************************************************)
EXTENDS Integers, Sequences, FiniteSets, TLC

(***************************************************************************)
(* Bounds of the model                                                     *)
(***************************************************************************)
MaxHeadlines == 3
\* largest number of headlines given to the search stage

MaxParallelBound == 2
\* largest maxParallel argument tried (search chunks, scrape limiter)

MaxScrapeHeadlines == 2
\* largest number of SearchResults given to the scrape stage

MaxResults == 3
\* largest results list of one successful search

MaxSumHeadlines == 2
\* largest number of headlines given to one summarizeHeadlines run

MaxTotalArticles == 3
\* largest number of scraped articles, over all headlines of one run

MaxBatchArticles == 2
\* largest scrapedArticles list of an email of a concurrent batch

BatchEmails == 2
\* emails processed concurrently by one processEmailsBatch batch

MaxBackendResults == 3
\* largest results list in a response of the search backend

MaxResultsCount == 2
\* largest resultsCount argument tried

MaxOptionRetries == 3
\* largest options.maxRetries given to the ArticleScraper constructor

MaxEmails == 3
\* longest list of forwarded emails of one processEmails run

MaxBatchSize == 2
\* largest CONFIG.BATCH_SIZE

MaxBodyWords == 2
\* most words of the text of a fetched page

MaxTextLength == 2
\* most characters of the headline of a single search

MaxTokens == 4
\* largest number of tokens of a text given to cleanText

MaxMatched == 2
\* largest number of content selectors that match an element of a page

MaxCalls == 3
\* largest number of concurrent findOrCreateUser calls (emails of one batch)

MaxMessages == 4
\* largest number of unread forwarded messages in the mailbox

(***************************************************************************)
(* Program constants                                                       *)
(***************************************************************************)
maxRetries == 3
\* SearXNGService.maxRetries

urlsPerHeadline == 2
\* scrapeHeadlineResults default, CONFIG.SCRAPE_URLS_PER_HEADLINE

batchSize == 5
\* scrapeHeadlineResults: headlines per batch

API_CALL_DELAY == 10000
\* ContentSummarizer.API_CALL_DELAY, milliseconds

MinContentLength == 100
\* findAndSummarizeRelevantContent: article.content.length < 100 is skipped

DefaultScraperRetries == 2
\* ArticleScraper constructor: options.maxRetries || 2

MinDelay == 500
\* ArticleScraper constructor: delayRange[0], milliseconds

MaxDelay == 1500
\* ArticleScraper constructor: delayRange[1], milliseconds

DefaultStaggerDelay == 200
\* searchMultipleHeadlinesParallel: default of staggerDelay, milliseconds

delayBetweenSearches == 1000
\* searchMultipleHeadlines: default of delayBetweenSearches, milliseconds

VARIABLES
  \* ---- search stage (searchMultipleHeadlinesParallel)
  headlines,        \* input: sequence of headlines
  maxParallel,      \* input: chunk size
  searchPc,         \* "loop" | "await" | "done"
  chunkStart,       \* the loop variable i (1-based)
  chunkPromises,    \* index of headline -> state of its staggered search
  settleOrder,      \* indexes of the current chunk in the order they settled
  allResults,       \* the results array
  successCount,
  failureCount,
  searchReturn,     \* the returned object, once searchPc = "done"
  staggerDelay,     \* input: the stagger delay, milliseconds
  searchNow,        \* time since the stage was entered, milliseconds
  searchLog,        \* history: index of headline -> what its search did so far
  \* ---- scrape stage (scrapeHeadlineResults)
  headlineSearchResults, \* input: sequence of SearchResults
  scrapeMaxParallel,     \* input: the maxParallel argument
  scrapePc,              \* "loop" | "tasks" | "done"
  batchStart,            \* the loop variable i (1-based)
  batchTasks,            \* tasks of the current batch still to be awaited
  fetches,               \* <<headline index, url rank>> -> state of scrapeUrl
  limiterActive,         \* fetch keys admitted by pLimit and not yet settled
  limiterQueue,          \* fetch keys queued in pLimit
  results,               \* the results array
  \* ---- summarize stage (summarizeHeadlines), one entry per concurrent run
  scrapedResults,   \* run -> input sequence of ScrapedHeadlineResults
  sumPc,            \* run -> "idle" | "headline" | "scan" | "sleep" | "call" | "done"
  hIdx,             \* run -> position in scrapedResults (1-based)
  aIdx,             \* run -> the loop variable i of findAndSummarizeRelevantContent (1-based)
  wakeAt,           \* run -> time at which its pending sleep() timer is due
  summaries,        \* run -> the summaries array
  sumSuccessCount,  \* run -> successCount
  lastApiCallTime,  \* ContentSummarizer.lastApiCallTime, shared by all runs
  now,              \* Date.now()
  events,           \* history: run -> what the run did, in order
  \* ---- one search request answered with status 200 (parseSearchResults)
  backendData,      \* input: response.data
  resultsCount,     \* input: the resultsCount argument of searchHeadline
  parsePc,          \* "request" | "done"
  parseReturn,      \* what searchHeadline returns, once parsePc = "done"
  \* ---- one scrapeUrl call (ArticleScraper.scrapeUrl)
  optionsMaxRetries, \* input: options.maxRetries of the constructor, 0 if absent
  urlArg,           \* input: the url argument
  urlPc,            \* "sleep" | "request" | "retrySleep" | "done"
  urlAttempt,       \* the attempt argument of the running invocation
  urlDelay,         \* length of the pending sleep, milliseconds
  urlLog,           \* history: the HTTP attempts made so far
  urlReturn,        \* the record returned, once urlPc = "done"
  urlAgent,         \* the User-Agent of the headers of the last request
  urlBody,          \* response.data of the attempt that succeeded
  firstFetch,       \* history: an earlier scrapeUrl call on the same url
  \* ---- one processEmails run (app.js)
  emails,           \* input: what getForwardedEmails returned
  emailBatchSize,   \* input: CONFIG.BATCH_SIZE
  emailPc,          \* "loop" | "await" | "done"
  emailStart,       \* the loop variable i of processEmailsBatch (1-based)
  emailTasks,       \* index of email -> state of its processSingleEmail promise
  emailResults,     \* the results array of processEmailsBatch
  emailReturn,      \* what processEmails returns, once emailPc = "done"
  \* ---- cleanText calls (ArticleScraper.cleanText)
  textArg,          \* input: the text argument, a sequence of tokens
  textPc,           \* "called" | "done"
  textReturn,       \* the text returned, once textPc = "done"
  textFirst,        \* history: the earlier call whose output is the argument
  \* ---- one extractContent call (ArticleScraper.extractContent)
  page,             \* input: the loaded document $
  pagePc,           \* "called" | "done"
  pageReturn,       \* the text returned, once pagePc = "done"
  \* ---- the findOrCreateUser calls of one batch (DatabaseService)
  users,            \* the rows of the table users
  userArg,          \* input: call -> the email argument
  userPc,           \* call -> "find" | "create" | "done" | "threw"
  userReturn,       \* call -> the user returned, once userPc = "done"
  \* ---- one getForwardedEmails call (GmailService)
  unread,           \* the messages of the mailbox that carry the UNREAD label
  messages,         \* res.data.messages, once the list request has answered
  mailPc,           \* "list" | "get" | "modify" | "done" | "threw"
  mailIdx,          \* position of the loop in messages (1-based)
  mailEmails,       \* the emails array
  mailReturn,       \* the list returned, once mailPc = "done"
  \* ---- one processSingleEmail call (app.js)
  procPc,           \* the call awaited, or "returned" | "threw"
  procHeadlines,    \* headlineResult.headlines.length, once extracted
  procOutput,       \* successes in the list the last stage returned
  procSaved,        \* table -> the row of this email, or NoRow
  procLog           \* history: the calls made and how they settled, in order

searchVars == <<headlines, maxParallel, searchPc, chunkStart, chunkPromises,
                settleOrder, allResults, successCount, failureCount, searchReturn,
                staggerDelay, searchNow, searchLog>>

scrapeVars == <<headlineSearchResults, scrapeMaxParallel, scrapePc, batchStart,
                batchTasks, fetches, limiterActive, limiterQueue, results>>

sumVars == <<scrapedResults, sumPc, hIdx, aIdx, wakeAt, summaries,
             sumSuccessCount, lastApiCallTime, now, events>>

parseVars == <<backendData, resultsCount, parsePc, parseReturn>>

urlVars == <<optionsMaxRetries, urlArg, urlPc, urlAttempt, urlDelay, urlLog, urlReturn,
             urlAgent, urlBody, firstFetch>>

emailVars == <<emails, emailBatchSize, emailPc, emailStart, emailTasks, emailResults,
               emailReturn>>

textVars == <<textArg, textPc, textReturn, textFirst>>

\* the variables of the units on texts, pages, users and the mailbox
pageVars == <<page, pagePc, pageReturn>>

userVars == <<users, userArg, userPc, userReturn>>

mailVars == <<unread, messages, mailPc, mailIdx, mailEmails, mailReturn>>

procVars == <<procPc, procHeadlines, procOutput, procSaved, procLog>>

restVars == <<textVars, pageVars, userVars, mailVars, procVars>>

\* the variables of the unit specifications
unitVars == <<parseVars, urlVars, emailVars, restVars>>

vars == <<searchVars, scrapeVars, sumVars, unitVars>>

(***************************************************************************)
(* Generic helpers                                                         *)
(***************************************************************************)
Min(a, b) == IF a < b THEN a ELSE b

Range(s) == {s[k] : k \in 1..Len(s)}

SuccessesCountingAll(s) == Len(s)

\* the number of entries of s with success set (filter(r => r.success).length)
Successes(s) == Cardinality({k \in 1..Len(s) : s[k].success})

Failures(s) == Cardinality({k \in 1..Len(s) : ~s[k].success})

(***************************************************************************)
(* SEARCH STAGE   src/searxngService.js                                    *)
(***************************************************************************)
WhiteSpace == {" ", "\n"}
\* the characters matched by \s that the texts of the model use

\* String.prototype.trim on a text given as its sequence of characters
RECURSIVE TrimLeft(_)
TrimLeft(s) == IF s # <<>> /\ Head(s) \in WhiteSpace THEN TrimLeft(Tail(s)) ELSE s

RECURSIVE TrimRight(_)
TrimRight(s) ==
  IF s # <<>> /\ s[Len(s)] \in WhiteSpace THEN TrimRight(SubSeq(s, 1, Len(s) - 1)) ELSE s

Trim(s) == TrimRight(TrimLeft(s))

HeadlineTexts == {<<>>, <<" ">>, <<"a">>}
\* the empty headline, a whitespace-only headline, a headline with text

Headline(i, text) == [id |-> i, text |-> text]

HeadlineLists ==
  UNION {{[i \in 1..n |-> Headline(i, texts[i])] : texts \in [1..n -> HeadlineTexts]}
         : n \in 0..MaxHeadlines}

WordChars == {"a"}
\* the characters matched by \w that the headlines of the model use

\* prepareSearchQuery line 144: .replace(/[^\w\s-]/g, ' ')
ReplaceOtherChars(s) ==
  [k \in 1..Len(s) |->
     IF s[k] \in WordChars \cup WhiteSpace \cup {"-"} THEN s[k] ELSE " "]

\* prepareSearchQuery line 145: .replace(/\s+/g, ' ')
RECURSIVE CollapseWhiteSpace(_)
CollapseWhiteSpace(s) ==
  IF s = <<>> THEN s
  ELSE IF Head(s) \in WhiteSpace
         THEN <<" ">> \o CollapseWhiteSpace(TrimLeft(s))
         ELSE <<Head(s)>> \o CollapseWhiteSpace(Tail(s))

\* prepareSearchQuery lines 142-147
prepareSearchQuery(headline) == Trim(CollapseWhiteSpace(ReplaceOtherChars(headline)))

IsBlankEmptyOnly(text) == text = <<>>

\* searchHeadline line 21: !headline || headline.trim().length === 0
IsBlank(text) == text = <<>> \/ Len(Trim(text)) = 0

NotAString == <<"[object Object]">>
\* a headline that is not a string (an object or a number): it is truthy and
\* has no trim method

\* searchHeadline line 21: headline.trim() throws a TypeError
TrimThrows(text) == text = NotAString

NoPromise == [phase |-> "none", attempt |-> 0, due |-> 0, result |-> <<>>]

\* searchHeadline lines 21-28: the validation failure
InvalidHeadlineResult(h) ==
  [headline |-> h.id, success |-> FALSE,
   error |-> [text |-> "No headline provided for search", count |-> 0],
   results |-> <<>>, attempts |-> 0]

\* searchHeadline lines 54-61: an exception thrown inside the try block
ExceptionResult(h) ==
  [headline |-> h.id, success |-> FALSE,
   error |-> [text |-> "headline.trim is not a function", count |-> 0],
   results |-> <<>>, attempts |-> 0]

\* searchHeadline lines 33-42; results stands for the parsed list (parseSearchResults)
SuccessfulSearch(h, attempt) ==
  [headline |-> h.id, success |-> TRUE, error |-> [text |-> "", count |-> 0],
   results |-> <<"parsed">>, attempts |-> attempt]

\* makeSearchRequest lines 189-192 and searchHeadline lines 43-51: the error
\* is `Failed after ${this.maxRetries} attempts: ...`
FailedSearch(h, attempt) ==
  [headline |-> h.id, success |-> FALSE,
   error |-> [text |-> "Failed after attempts", count |-> maxRetries],
   results |-> <<>>, attempts |-> attempt]

MayRetryOnceMore(attempt) == attempt <= maxRetries

\* makeSearchRequest line 184
MayRetry(attempt) == attempt < maxRetries

ChunkEndWholeList == Len(headlines)

ChunkEnd == Min(chunkStart + maxParallel - 1, Len(headlines))
\* headlines.slice(i, i + maxParallel)

Chunk == chunkStart..ChunkEnd

ChunkResultsInCompletionOrder ==
  [k \in 1..Len(settleOrder) |-> chunkPromises[settleOrder[k]].result]

\* await Promise.all(chunkPromises): the values in the order of the promises
ChunkResults ==
  [k \in 1..(ChunkEnd - chunkStart + 1) |-> chunkPromises[chunkStart + k - 1].result]

SearchTickStep == staggerDelay \div 2
\* clock resolution: half the stagger delay

MaxSearchClock == MaxHeadlines * staggerDelay
\* enough for the stagger timers of every chunk of the longest list

\* history: what happened to the search of one headline so far
NewSearchLog ==
  [created |-> -1, started |-> -1, settled |-> FALSE, query |-> <<>>, requests |-> <<>>]
\* created: when the promise of the headline was created; started: when
\* searchHeadline was entered; query: the q parameter of its requests

LogSettled(log, outcome) ==
  [log EXCEPT !.settled = TRUE,
              !.requests = IF @ = <<>> THEN @
                           ELSE [@ EXCEPT ![Len(@)] = outcome]]

\* searchMultipleHeadlinesParallel lines 66-74 is entered with a list of
\* lists and these arguments
SearchEnteredWith(lists, parallel, stagger) ==
  /\ headlines \in lists
  /\ maxParallel = parallel
  /\ staggerDelay = stagger
  /\ searchPc = "loop"
  /\ chunkStart = 1
  /\ chunkPromises = [k \in {} |-> NoPromise]
  /\ settleOrder = <<>>
  /\ allResults = <<>>
  /\ successCount = 0
  /\ failureCount = 0
  /\ searchReturn = <<>>
  /\ searchNow = 0
  /\ searchLog = [k \in {} |-> NewSearchLog]

SearchEntered(parallel, stagger) == SearchEnteredWith(HeadlineLists, parallel, stagger)

HeadlineChars == WordChars \cup WhiteSpace \cup {"-", "!"}
\* a word character, a blank, the hyphen and a punctuation mark

TextsUpTo(n) == UNION {[1..m -> HeadlineChars] : m \in 0..n}

\* one headline of any text: a single searchHeadline call
InitSearchHeadline ==
  SearchEnteredWith({<<Headline(1, text)>> : text \in TextsUpTo(MaxTextLength)},
                    1, DefaultStaggerDelay)

\* lists of headlines of which some are blank and some are not strings
MixedHeadlineLists ==
  UNION {{[i \in 1..n |-> Headline(i, texts[i])] :
            texts \in [1..n -> {<<>>, <<"a">>, NotAString}]}
         : n \in 0..MaxHeadlines}

\* the widest chunks of the model, so that sibling searches run together
InitSearchMixed ==
  SearchEnteredWith(MixedHeadlineLists, MaxParallelBound, DefaultStaggerDelay)

\* lists of headlines that are empty or have text
PlainHeadlineLists ==
  UNION {{[i \in 1..n |-> Headline(i, texts[i])] : texts \in [1..n -> {<<>>, <<"a">>}]}
         : n \in 0..MaxHeadlines}

\* the parallel mode, line 66, on the plain lists
InitSearchPlain ==
  \E parallel \in 1..MaxParallelBound :
    SearchEnteredWith(PlainHeadlineLists, parallel, DefaultStaggerDelay)

\* the parallel mode, line 66
InitSearch ==
  \E parallel \in 1..MaxParallelBound : SearchEntered(parallel, DefaultStaggerDelay)

\* searchMultipleHeadlines lines 136-140: the sequential mode
InitSequential == SearchEntered(1, delayBetweenSearches)

StaggerDueAtOnce(k) == searchNow

\* line 87: the promise of the headline at index k - chunkStart of the chunk
\* waits index * staggerDelay from now
StaggerDue(k) == searchNow + (k - chunkStart) * staggerDelay

\* lines 77-91: slice the chunk and create its staggered promises
StartChunk ==
  /\ searchPc = "loop"
  /\ chunkStart <= Len(headlines)
  /\ chunkPromises' =
       [k \in Chunk |-> [phase |-> "delay", attempt |-> 0,
                         due |-> StaggerDue(k),
                         result |-> <<>>]]
  /\ searchLog' = [k \in DOMAIN searchLog \cup Chunk |->
                     IF k \in Chunk THEN [NewSearchLog EXCEPT !.created = searchNow]
                                     ELSE searchLog[k]]
  /\ settleOrder' = <<>>
  /\ searchPc' = "await"
  /\ UNCHANGED <<scrapeVars, sumVars, unitVars>>
  /\ UNCHANGED <<headlines, maxParallel, staggerDelay, chunkStart, allResults,
                 successCount, failureCount, searchReturn, searchNow>>

\* lines 87-90: the timer index * staggerDelay fires (timers fire in the order
\* of their delays) and searchHeadline runs up to its first await
StaggerTimerFires(k) ==
  /\ searchPc = "await"
  /\ k \in Chunk
  /\ chunkPromises[k].phase = "delay"
  /\ searchNow >= chunkPromises[k].due
  /\ \A j \in Chunk : j < k => chunkPromises[j].phase # "delay"
  /\ IF TrimThrows(headlines[k].text) \/ IsBlank(headlines[k].text)
       THEN /\ chunkPromises' = [chunkPromises EXCEPT ![k] =
                 [phase |-> "settled", attempt |-> 0, due |-> 0,
                  result |-> IF TrimThrows(headlines[k].text)
                               THEN ExceptionResult(headlines[k])
                               ELSE InvalidHeadlineResult(headlines[k])]]
            /\ settleOrder' = Append(settleOrder, k)
            /\ searchLog' = [searchLog EXCEPT ![k] =
                 [@ EXCEPT !.started = searchNow, !.settled = TRUE]]
       ELSE /\ chunkPromises' = [chunkPromises EXCEPT ![k] =
                 [phase |-> "request", attempt |-> 1, due |-> 0, result |-> <<>>]]
            /\ UNCHANGED settleOrder
            /\ searchLog' = [searchLog EXCEPT ![k] =
                 [@ EXCEPT !.started = searchNow,
                           !.query = prepareSearchQuery(headlines[k].text),
                           !.requests = <<"pending">>]]
  /\ UNCHANGED <<scrapeVars, sumVars, unitVars>>
  /\ UNCHANGED <<headlines, maxParallel, staggerDelay, searchPc, chunkStart,
                 allResults, successCount, failureCount, searchReturn, searchNow>>

\* makeSearchRequest lines 162-176: status 200 with data
RequestSucceeds(k) ==
  /\ searchPc = "await"
  /\ k \in Chunk
  /\ chunkPromises[k].phase = "request"
  /\ chunkPromises' = [chunkPromises EXCEPT ![k] =
       [phase |-> "settled", attempt |-> @.attempt, due |-> 0,
        result |-> SuccessfulSearch(headlines[k], @.attempt)]]
  /\ settleOrder' = Append(settleOrder, k)
  /\ searchLog' = [searchLog EXCEPT ![k] = LogSettled(@, "ok")]
  /\ UNCHANGED <<scrapeVars, sumVars, unitVars>>
  /\ UNCHANGED <<headlines, maxParallel, staggerDelay, searchPc, chunkStart,
                 allResults, successCount, failureCount, searchReturn, searchNow>>

\* makeSearchRequest lines 181-193: timeout, non-200 or network error
RequestFails(k) ==
  /\ searchPc = "await"
  /\ k \in Chunk
  /\ chunkPromises[k].phase = "request"
  /\ IF MayRetry(chunkPromises[k].attempt)
       THEN /\ chunkPromises' = [chunkPromises EXCEPT ![k].phase = "retryDelay"]
            /\ UNCHANGED settleOrder
            /\ searchLog' = [searchLog EXCEPT ![k].requests =
                               [@ EXCEPT ![Len(@)] = "fail"]]
       ELSE /\ chunkPromises' = [chunkPromises EXCEPT ![k] =
                 [phase |-> "settled", attempt |-> @.attempt, due |-> 0,
                  result |-> FailedSearch(headlines[k], @.attempt)]]
            /\ settleOrder' = Append(settleOrder, k)
            /\ searchLog' = [searchLog EXCEPT ![k] = LogSettled(@, "fail")]
  /\ UNCHANGED <<scrapeVars, sumVars, unitVars>>
  /\ UNCHANGED <<headlines, maxParallel, staggerDelay, searchPc, chunkStart,
                 allResults, successCount, failureCount, searchReturn, searchNow>>

\* makeSearchRequest lines 186-187: the retry delay is over, next attempt (the
\* length of the retry delay is not measured by the clock of the model)
RetryTimerFires(k) ==
  /\ searchPc = "await"
  /\ k \in Chunk
  /\ chunkPromises[k].phase = "retryDelay"
  /\ chunkPromises' = [chunkPromises EXCEPT ![k] =
       [phase |-> "request", attempt |-> @.attempt + 1, due |-> 0, result |-> <<>>]]
  /\ searchLog' = [searchLog EXCEPT ![k].requests = Append(@, "pending")]
  /\ UNCHANGED <<scrapeVars, sumVars, unitVars>>
  /\ UNCHANGED <<headlines, maxParallel, staggerDelay, searchPc, chunkStart,
                 settleOrder, allResults, successCount, failureCount, searchReturn,
                 searchNow>>

NextChunkStartSame == chunkStart

\* line 77: i += maxParallel
NextChunkStart == chunkStart + maxParallel

\* lines 94-107: Promise.all resolves, the results are counted and pushed
ChunkSettled ==
  /\ searchPc = "await"
  /\ \A k \in Chunk : chunkPromises[k].phase = "settled"
  /\ LET chunkResults == ChunkResults IN
       /\ allResults' = allResults \o chunkResults
       /\ successCount' = successCount + Successes(chunkResults)
       /\ failureCount' = failureCount + Failures(chunkResults)
  /\ chunkStart' = NextChunkStart
  /\ searchPc' = "loop"
  /\ UNCHANGED <<scrapeVars, sumVars, unitVars>>
  /\ UNCHANGED <<headlines, maxParallel, staggerDelay, chunkPromises, settleOrder,
                 searchReturn, searchNow, searchLog>>

\* lines 109-123
SearchReturns ==
  /\ searchPc = "loop"
  /\ chunkStart > Len(headlines)
  /\ searchPc' = "done"
  /\ searchReturn' = [success |-> TRUE, totalHeadlines |-> Len(headlines),
                      successfulSearches |-> successCount,
                      failedSearches |-> failureCount, results |-> allResults]
  /\ UNCHANGED <<scrapeVars, sumVars, unitVars>>
  /\ UNCHANGED <<headlines, maxParallel, staggerDelay, chunkStart, chunkPromises,
                 settleOrder, allResults, successCount, failureCount, searchNow,
                 searchLog>>

\* time passes while the chunk is awaited: a stagger timer is pending or a
\* request is in flight, and no stagger timer is overdue; past MaxSearchClock
\* the clock only runs up to the pending stagger timers
SearchTick ==
  /\ searchPc = "await"
  /\ \E k \in Chunk : chunkPromises[k].phase # "settled"
  /\ \A k \in Chunk : chunkPromises[k].phase = "delay" => searchNow < chunkPromises[k].due
  /\ \/ searchNow + SearchTickStep <= MaxSearchClock
     \/ \E k \in Chunk : chunkPromises[k].phase = "delay"
  /\ searchNow' = searchNow + SearchTickStep
  /\ UNCHANGED <<scrapeVars, sumVars, unitVars>>
  /\ UNCHANGED <<headlines, maxParallel, staggerDelay, searchPc, chunkStart,
                 chunkPromises, settleOrder, allResults, successCount, failureCount,
                 searchReturn, searchLog>>

NextSearch ==
  \/ StartChunk
  \/ \E k \in DOMAIN chunkPromises : StaggerTimerFires(k)
  \/ \E k \in DOMAIN chunkPromises : RequestSucceeds(k)
  \/ \E k \in DOMAIN chunkPromises : RequestFails(k)
  \/ \E k \in DOMAIN chunkPromises : RetryTimerFires(k)
  \/ ChunkSettled
  \/ SearchReturns
  \/ SearchTick

(***************************************************************************)
(* SCRAPE STAGE   src/unnamed/part_004 (ArticleScraper)                    *)
(***************************************************************************)
ArticleRef(i, r) == [rank |-> r, url |-> <<i, r>>]
\* an entry of SearchResult.results; the url is named by headline and rank

\* what searchHeadline returns: a failure carries results: []
SearchResultsOf(i) ==
  {[headline |-> i, success |-> FALSE, results |-> <<>>]}
  \cup {[headline |-> i, success |-> TRUE,
         results |-> [r \in 1..n |-> ArticleRef(i, r)]] : n \in 0..MaxResults}

SearchResultLists ==
  UNION {{s \in [1..n -> UNION {SearchResultsOf(i) : i \in 1..n}] :
            \A i \in 1..n : s[i].headline = i}
         : n \in 0..MaxScrapeHeadlines}

\* lists that reach into a second batch: batchSize + 1 headlines, those before
\* the last of the first batch with failed searches
BatchBoundaryLists ==
  {[i \in 1..(batchSize + 1) |->
      IF i < batchSize THEN [headline |-> i, success |-> FALSE, results |-> <<>>]
      ELSE IF i = batchSize THEN last ELSE next]
     : last \in SearchResultsOf(batchSize), next \in SearchResultsOf(batchSize + 1)}

BatchEndWholeList == Len(headlineSearchResults)

BatchEnd == Min(batchStart + batchSize - 1, Len(headlineSearchResults))
\* headlineSearchResults.slice(i, i + batchSize)

NoSearchResultsFailedOnly(headlineResult) == ~headlineResult.success

\* line 202
NoSearchResults(headlineResult) ==
  \/ ~headlineResult.success
  \/ Len(headlineResult.results) = 0

UrlsToScrapeAll(headlineResult) ==
  [k \in 1..Len(headlineResult.results) |-> headlineResult.results[k].url]

\* lines 213-215: headlineResult.results.slice(0, urlsPerHeadline).map(r => r.url)
UrlsToScrape(headlineResult) ==
  [k \in 1..Min(urlsPerHeadline, Len(headlineResult.results)) |->
     headlineResult.results[k].url]

ResultsAfterSplice(list, n) == SubSeq(list, n + 1, Len(list))

\* lines 213-214: Array.prototype.slice copies, the receiver keeps its elements
ResultsAfterSlice(list, n) == list

\* lines 204-208
NoResultsEntry(headlineResult) ==
  [headline |-> headlineResult.headline, searchSuccess |-> FALSE,
   totalSearchResults |-> 0, scrapedCount |-> 0, scrapedArticles |-> <<>>]

BatchIndexes == [k \in 1..(BatchEnd - batchStart + 1) |-> batchStart + k - 1]

\* the headlines of the batch that get scrape tasks, in batch order (lines 220-224)
TaskIndexes ==
  SelectSeq(BatchIndexes, LAMBDA i : ~NoSearchResults(headlineSearchResults[i]))

\* the entries pushed while the tasks are created (lines 202-210)
EarlyEntries ==
  LET failed == SelectSeq(BatchIndexes,
                           LAMBDA i : NoSearchResults(headlineSearchResults[i]))
  IN  [k \in 1..Len(failed) |-> NoResultsEntry(headlineSearchResults[failed[k]])]

\* the scrapeUrl calls of one headline, as keys <<headline index, position>>
TaskKeys(i) ==
  [k \in 1..Len(UrlsToScrape(headlineSearchResults[i])) |-> <<i, k>>]

\* line 218: urlsToScrape.map(url => this.scrapeUrl(url)) calls scrapeUrl at once;
\* each call runs up to its first await and is in flight from then on
StartedFetches ==
  LET keys == UNION {Range(TaskKeys(i)) : i \in Range(TaskIndexes)} IN
  [key \in keys |->
     [state |-> "running", overtaken |-> FALSE,
      url |-> UrlsToScrape(headlineSearchResults[key[1]])[key[2]]]]

InFlight == {key \in DOMAIN fetches : fetches[key].state = "running"}

ScrapedArticleAllOrNothing(key) ==
  [success |-> \A other \in DOMAIN fetches :
                 other[1] = key[1] => fetches[other].state = "ok",
   url |-> fetches[key].url]

\* scrapeUrl's result: lines 144-153 (success) or 163-168 (failure)
ScrapedArticle(key) ==
  [success |-> fetches[key].state = "ok", url |-> fetches[key].url]

\* pLimit: at most `concurrency` of the queued functions are active
RECURSIVE Admit(_, _, _)
Admit(active, queue, concurrency) ==
  IF queue # <<>> /\ Cardinality(active) < concurrency
    THEN Admit(active \cup {Head(queue)}, Tail(queue), concurrency)
    ELSE <<active, queue>>

\* lines 246-252
ScrapedEntry(i) ==
  LET scrapedArticles == [k \in 1..Len(TaskKeys(i)) |-> ScrapedArticle(TaskKeys(i)[k])]
  IN  [headline |-> headlineSearchResults[i].headline, searchSuccess |-> TRUE,
       totalSearchResults |-> Len(headlineSearchResults[i].results),
       scrapedCount |-> Successes(scrapedArticles),
       scrapedArticles |-> scrapedArticles]

\* scrapeHeadlineResults lines 173-181 is entered with a list of lists and a
\* maxParallel of parallels
ScrapeEnteredWith(lists, parallels) ==
  /\ headlineSearchResults \in lists
  /\ scrapeMaxParallel \in parallels
  /\ scrapePc = "loop"
  /\ batchStart = 1
  /\ batchTasks = <<>>
  /\ fetches = [key \in {} |-> <<>>]
  /\ limiterActive = {}
  /\ limiterQueue = <<>>
  /\ results = <<>>

InitScrape == ScrapeEnteredWith(SearchResultLists, 1..MaxParallelBound)

InitScrapeBatches == ScrapeEnteredWith(BatchBoundaryLists, 1..MaxParallelBound)

\* the widest limiter of the model, so that sibling fetches run together
InitScrapeWidest == ScrapeEnteredWith(SearchResultLists, {MaxParallelBound})

\* the caller's list after the tasks of the batch were created (lines 186-225):
\* the SearchResults are read, and their results lists sliced
InputAfterStartBatch ==
  [i \in 1..Len(headlineSearchResults) |->
     IF i \in Range(TaskIndexes)
       THEN [headlineSearchResults[i] EXCEPT
               !.results = ResultsAfterSlice(@, urlsPerHeadline)]
       ELSE headlineSearchResults[i]]

\* lines 182-228: slice the batch, push the entries of the headlines without
\* results, start the fetches of the others, create the limiter
StartBatch ==
  /\ scrapePc = "loop"
  /\ batchStart <= Len(headlineSearchResults)
  /\ results' = results \o EarlyEntries
  /\ fetches' = [key \in DOMAIN fetches \cup DOMAIN StartedFetches |->
                   IF key \in DOMAIN StartedFetches THEN StartedFetches[key]
                                                   ELSE fetches[key]]
  /\ batchTasks' = TaskIndexes
  /\ limiterActive' = {}
  /\ limiterQueue' = <<>>
  /\ scrapePc' = "tasks"
  /\ headlineSearchResults' = InputAfterStartBatch
  /\ UNCHANGED <<searchVars, sumVars, unitVars>>
  /\ UNCHANGED <<scrapeMaxParallel, batchStart>>

\* lines 230-233: the next task's promises are handed to the limiter and awaited
AwaitTask ==
  /\ scrapePc = "tasks"
  /\ batchTasks # <<>>
  /\ LET adm == Admit(limiterActive, TaskKeys(Head(batchTasks)), scrapeMaxParallel) IN
       /\ limiterActive' = adm[1]
       /\ limiterQueue' = adm[2]
  /\ scrapePc' = "await"
  /\ UNCHANGED <<searchVars, sumVars, unitVars>>
  /\ UNCHANGED <<headlineSearchResults, scrapeMaxParallel, batchStart, batchTasks,
                 fetches, results>>

\* a fetch of the same headline and of a later URL has settled already
Overtaken(key) ==
  \E other \in DOMAIN fetches :
    /\ other[1] = key[1]
    /\ other[2] > key[2]
    /\ fetches[other].state # "running"

\* scrapeUrl settles with a success record or, retries exhausted, a failure
\* record; overtaken is history: it settled after a later URL of its headline
FetchSettles(key, ok) ==
  /\ key \in DOMAIN fetches
  /\ fetches[key].state = "running"
  /\ fetches' = [fetches EXCEPT ![key].state = IF ok THEN "ok" ELSE "fail",
                                ![key].overtaken = Overtaken(key)]
  /\ UNCHANGED <<searchVars, sumVars, unitVars>>
  /\ UNCHANGED <<headlineSearchResults, scrapeMaxParallel, scrapePc, batchStart,
                 batchTasks, limiterActive, limiterQueue, results>>

\* pLimit: an active function's promise has settled, the next queued one is admitted
LimiterRelease(key) ==
  /\ scrapePc = "await"
  /\ key \in limiterActive
  /\ fetches[key].state # "running"
  /\ LET adm == Admit(limiterActive \ {key}, limiterQueue, scrapeMaxParallel) IN
       /\ limiterActive' = adm[1]
       /\ limiterQueue' = adm[2]
  /\ UNCHANGED <<searchVars, sumVars, unitVars>>
  /\ UNCHANGED <<headlineSearchResults, scrapeMaxParallel, scrapePc, batchStart,
                 batchTasks, fetches, results>>

\* lines 231-252: Promise.all of the task resolves, its entry is pushed
TaskDone ==
  /\ scrapePc = "await"
  /\ limiterActive = {}
  /\ limiterQueue = <<>>
  /\ results' = Append(results, ScrapedEntry(Head(batchTasks)))
  /\ batchTasks' = Tail(batchTasks)
  /\ scrapePc' = "tasks"
  /\ UNCHANGED <<searchVars, sumVars, unitVars>>
  /\ UNCHANGED <<headlineSearchResults, scrapeMaxParallel, batchStart, fetches,
                 limiterActive, limiterQueue>>

\* lines 257-258: the batch is complete, i += batchSize
BatchDone ==
  /\ scrapePc = "tasks"
  /\ batchTasks = <<>>
  /\ batchStart' = batchStart + batchSize
  /\ scrapePc' = "loop"
  /\ UNCHANGED <<searchVars, sumVars, unitVars>>
  /\ UNCHANGED <<headlineSearchResults, scrapeMaxParallel, batchTasks, fetches,
                 limiterActive, limiterQueue, results>>

\* line 268
ScrapeReturns ==
  /\ scrapePc = "loop"
  /\ batchStart > Len(headlineSearchResults)
  /\ scrapePc' = "done"
  /\ UNCHANGED <<searchVars, sumVars, unitVars>>
  /\ UNCHANGED <<headlineSearchResults, scrapeMaxParallel, batchStart, batchTasks,
                 fetches, limiterActive, limiterQueue, results>>

NextScrape ==
  \/ StartBatch
  \/ AwaitTask
  \/ \E key \in DOMAIN fetches : \E ok \in BOOLEAN : FetchSettles(key, ok)
  \/ \E key \in limiterActive : LimiterRelease(key)
  \/ TaskDone
  \/ BatchDone
  \/ ScrapeReturns

(***************************************************************************)
(* SUMMARIZE STAGE   src/prisma/schema.prisma lines 136-403                *)
(* (ContentSummarizer)                                                     *)
(***************************************************************************)
ContentLengths == {0, MinContentLength - 1, MinContentLength}
\* 0 stands for a missing or empty content

\* what scrapeUrl produces: a failure record has no content
ArticleKinds ==
  {[success |-> FALSE, contentLength |-> 0]}
  \cup {[success |-> TRUE, contentLength |-> n] : n \in ContentLengths}

RECURSIVE SumTo(_, _)
SumTo(f, n) == IF n = 0 THEN 0 ELSE f[n] + SumTo(f, n - 1)

\* the ScrapedHeadlineResults with the given lengths of scrapedArticles, the
\* articles taken in order from the flat sequence `kinds`
ScrapedResultsOf(lens, kinds) ==
  [h \in 1..Len(lens) |->
     [headline |-> h,
      scrapedArticles |->
        [a \in 1..lens[h] |->
           [success |-> kinds[SumTo(lens, h - 1) + a].success,
            contentLength |-> kinds[SumTo(lens, h - 1) + a].contentLength,
            url |-> <<h, a>>]]]]

\* every input of at most maxH headlines and maxTotal articles in all
ScrapedResultsUpTo(maxH, maxTotal) ==
  UNION {UNION {{ScrapedResultsOf(lens, kinds) :
                   kinds \in [1..SumTo(lens, n) -> ArticleKinds]}
                : lens \in {l \in [1..n -> 0..maxTotal] : SumTo(l, n) <= maxTotal}}
         : n \in 0..maxH}

Runs == DOMAIN sumPc

TickStep == API_CALL_DELAY \div 2
\* clock resolution: half the minimum interval

StartTime == 2 * API_CALL_DELAY
\* Date.now() when the run starts: Unix time, far above API_CALL_DELAY

MaxClock == StartTime + MaxTotalArticles * API_CALL_DELAY

ResponseTexts ==
  {<<>>, <<"word">>, <<"NOT_RELEVANT">>, <<"word", "NOT_RELEVANT">>}
\* the trimmed text of a response, as its sequence of words: empty, a summary,
\* the sentinel alone, a text that contains the sentinel

Responses ==
  {[thrown |-> FALSE, text |-> text] : text \in ResponseTexts}
  \cup {[thrown |-> TRUE, text |-> <<>>]}
\* what the model call gives: a response text, or an exception

Event(type, p, t, relevant) ==
  [type |-> type, run |-> p, h |-> hIdx[p], a |-> aIdx[p], t |-> t,
   relevant |-> relevant]

CurHeadline(p) == scrapedResults[p][hIdx[p]]

CurArticles(p) == CurHeadline(p).scrapedArticles

EligibleBelowThreshold(article) ==
  ~(\/ ~article.success
    \/ article.contentLength = 0
    \/ article.contentLength < MinContentLength - 1)

EligibleAboveThreshold(article) ==
  ~(\/ ~article.success
    \/ article.contentLength = 0
    \/ article.contentLength <= MinContentLength)

\* line 295, negated
Eligible(article) ==
  ~(\/ ~article.success
    \/ article.contentLength = 0
    \/ article.contentLength < MinContentLength)

\* analyzeAndSummarize lines 255-285
AnalysisExactSentinelOnly(resp) ==
  IF resp.thrown \/ resp.text = <<>> \/ resp.text = <<"NOT_RELEVANT">>
    THEN [relevant |-> FALSE, summary |-> FALSE]
    ELSE [relevant |-> TRUE, summary |-> TRUE]

\* analyzeAndSummarize: the catch of lines 272-285, and line 255:
\* !responseText || responseText === 'NOT_RELEVANT' || responseText.includes('NOT_RELEVANT')
Analysis(resp) ==
  IF resp.thrown
    THEN [relevant |-> FALSE, summary |-> FALSE]
    ELSE IF \/ resp.text = <<>>
            \/ resp.text = <<"NOT_RELEVANT">>
            \/ \E k \in 1..Len(resp.text) : resp.text[k] = "NOT_RELEVANT"
           THEN [relevant |-> FALSE, summary |-> FALSE]
           ELSE [relevant |-> TRUE, summary |-> TRUE]

FoundResultZeroBasedIndex(headline, article, i) ==
  [headline |-> headline, success |-> TRUE, reason |-> "",
   url |-> article.url, articleIndex |-> i, totalArticlesChecked |-> i + 1]

FoundResultZeroBasedCount(headline, article, i) ==
  [headline |-> headline, success |-> TRUE, reason |-> "",
   url |-> article.url, articleIndex |-> i + 1, totalArticlesChecked |-> i]

\* lines 310-321
FoundResult(headline, article, i) ==
  [headline |-> headline, success |-> TRUE, reason |-> "",
   url |-> article.url, articleIndex |-> i + 1, totalArticlesChecked |-> i + 1]

NotFoundResultLastIndex(headline, scrapedArticles) ==
  [headline |-> headline, success |-> FALSE,
   reason |-> "No relevant content found in scraped articles",
   url |-> <<>>, articleIndex |-> 0,
   totalArticlesChecked |-> Len(scrapedArticles) - 1]

\* lines 328-334
NotFoundResult(headline, scrapedArticles) ==
  [headline |-> headline, success |-> FALSE,
   reason |-> "No relevant content found in scraped articles",
   url |-> <<>>, articleIndex |-> 0, totalArticlesChecked |-> Len(scrapedArticles)]

\* lines 356-361
NoArticlesResult(headline) ==
  [headline |-> headline, success |-> FALSE, reason |-> "No articles to analyze",
   url |-> <<>>, articleIndex |-> 0, totalArticlesChecked |-> 0]

NoEligibleArticles(headlineData) ==
  \A a \in 1..Len(headlineData.scrapedArticles) :
    ~headlineData.scrapedArticles[a].success

\* line 355
NoArticles(headlineData) == Len(headlineData.scrapedArticles) = 0

\* enforceApiDelay lines 190-194
TimeSinceLastCall == now - lastApiCallTime

MustWait == TimeSinceLastCall < API_CALL_DELAY

WaitTimeElapsed == TimeSinceLastCall

WaitTime == API_CALL_DELAY - TimeSinceLastCall

\* the constructor, lines 146-147, and the inputs of the runs to come
InitSummarizer(runs, inputs) ==
  /\ scrapedResults \in [runs -> inputs]
  /\ sumPc = [p \in runs |-> "idle"]
  /\ hIdx = [p \in runs |-> 1]
  /\ aIdx = [p \in runs |-> 1]
  /\ wakeAt = [p \in runs |-> 0]
  /\ summaries = [p \in runs |-> <<>>]
  /\ sumSuccessCount = [p \in runs |-> 0]
  /\ lastApiCallTime = 0
  /\ now = StartTime
  /\ events = [p \in runs |-> <<>>]

\* summarizeHeadlines lines 338-352: the run is entered
StartRun(p) ==
  /\ sumPc[p] = "idle"
  /\ sumPc' = [sumPc EXCEPT ![p] = "headline"]
  /\ hIdx' = [hIdx EXCEPT ![p] = 1]
  /\ summaries' = [summaries EXCEPT ![p] = <<>>]
  /\ sumSuccessCount' = [sumSuccessCount EXCEPT ![p] = 0]
  /\ UNCHANGED <<searchVars, scrapeVars, unitVars>>
  /\ UNCHANGED <<scrapedResults, aIdx, wakeAt, lastApiCallTime, now, events>>

\* lines 354-363: a headline without scraped articles
HeadlineWithoutArticles(p) ==
  /\ sumPc[p] = "headline"
  /\ hIdx[p] <= Len(scrapedResults[p])
  /\ NoArticles(CurHeadline(p))
  /\ summaries' = [summaries EXCEPT ![p] =
                     Append(@, NoArticlesResult(CurHeadline(p).headline))]
  /\ hIdx' = [hIdx EXCEPT ![p] = @ + 1]
  /\ UNCHANGED <<searchVars, scrapeVars, unitVars>>
  /\ UNCHANGED <<scrapedResults, sumPc, aIdx, wakeAt, sumSuccessCount,
                 lastApiCallTime, now, events>>

\* lines 365-368 and 289-292: findAndSummarizeRelevantContent is entered
EnterHeadline(p) ==
  /\ sumPc[p] = "headline"
  /\ hIdx[p] <= Len(scrapedResults[p])
  /\ ~NoArticles(CurHeadline(p))
  /\ aIdx' = [aIdx EXCEPT ![p] = 1]
  /\ sumPc' = [sumPc EXCEPT ![p] = "scan"]
  /\ UNCHANGED <<searchVars, scrapeVars, unitVars>>
  /\ UNCHANGED <<scrapedResults, hIdx, wakeAt, summaries, sumSuccessCount,
                 lastApiCallTime, now, events>>

\* lines 293-298: the article is skipped
SkipArticle(p) ==
  /\ sumPc[p] = "scan"
  /\ aIdx[p] <= Len(CurArticles(p))
  /\ ~Eligible(CurArticles(p)[aIdx[p]])
  /\ events' = [events EXCEPT ![p] = Append(@, Event("skip", p, 0, FALSE))]
  /\ aIdx' = [aIdx EXCEPT ![p] = @ + 1]
  /\ UNCHANGED <<searchVars, scrapeVars, unitVars>>
  /\ UNCHANGED <<scrapedResults, sumPc, hIdx, wakeAt, summaries, sumSuccessCount,
                 lastApiCallTime, now>>

\* lines 302, 206, 190-199 without a wait, then 246: the model call is initiated
CallWithoutWait(p) ==
  /\ sumPc[p] = "scan"
  /\ aIdx[p] <= Len(CurArticles(p))
  /\ Eligible(CurArticles(p)[aIdx[p]])
  /\ ~MustWait
  /\ lastApiCallTime' = now
  /\ events' = [events EXCEPT ![p] = Append(@, Event("call", p, now, FALSE))]
  /\ sumPc' = [sumPc EXCEPT ![p] = "call"]
  /\ UNCHANGED <<searchVars, scrapeVars, unitVars>>
  /\ UNCHANGED <<scrapedResults, hIdx, aIdx, wakeAt, summaries, sumSuccessCount, now>>

\* lines 302, 206, 190-196: enforceApiDelay sleeps for waitTime
WaitBeforeCall(p) ==
  /\ sumPc[p] = "scan"
  /\ aIdx[p] <= Len(CurArticles(p))
  /\ Eligible(CurArticles(p)[aIdx[p]])
  /\ MustWait
  /\ wakeAt' = [wakeAt EXCEPT ![p] = now + WaitTime]
  /\ events' = [events EXCEPT ![p] = Append(@, Event("wait", p, now, FALSE))]
  /\ sumPc' = [sumPc EXCEPT ![p] = "sleep"]
  /\ UNCHANGED <<searchVars, scrapeVars, unitVars>>
  /\ UNCHANGED <<scrapedResults, hIdx, aIdx, summaries, sumSuccessCount,
                 lastApiCallTime, now>>

\* lines 196-199, then 246: the sleep is over, the time is stamped and the
\* model call is initiated
CallAfterWait(p) ==
  /\ sumPc[p] = "sleep"
  /\ now >= wakeAt[p]
  /\ lastApiCallTime' = now
  /\ events' = [events EXCEPT ![p] = Append(@, Event("call", p, now, FALSE))]
  /\ sumPc' = [sumPc EXCEPT ![p] = "call"]
  /\ UNCHANGED <<searchVars, scrapeVars, unitVars>>
  /\ UNCHANGED <<scrapedResults, hIdx, aIdx, wakeAt, summaries, sumSuccessCount, now>>

\* lines 246-285 and 308-324, 370-374: the model call settles
ModelResponds(p, resp) ==
  /\ sumPc[p] = "call"
  /\ LET analysis == Analysis(resp) IN
       /\ events' = [events EXCEPT ![p] = Append(@, Event("verdict", p, 0, analysis.relevant))]
       /\ IF analysis.relevant /\ analysis.summary
            THEN /\ summaries' = [summaries EXCEPT ![p] =
                       Append(@, FoundResult(CurHeadline(p).headline,
                                             CurArticles(p)[aIdx[p]], aIdx[p] - 1))]
                 /\ sumSuccessCount' = [sumSuccessCount EXCEPT ![p] = @ + 1]
                 /\ hIdx' = [hIdx EXCEPT ![p] = @ + 1]
                 /\ sumPc' = [sumPc EXCEPT ![p] = "headline"]
                 /\ UNCHANGED aIdx
            ELSE /\ aIdx' = [aIdx EXCEPT ![p] = @ + 1]
                 /\ sumPc' = [sumPc EXCEPT ![p] = "scan"]
                 /\ UNCHANGED <<summaries, sumSuccessCount, hIdx>>
  /\ UNCHANGED <<searchVars, scrapeVars, unitVars>>
  /\ UNCHANGED <<scrapedResults, wakeAt, lastApiCallTime, now>>

\* lines 327-334 and 370-374: the loop over the articles ended without a match
NoRelevantContent(p) ==
  /\ sumPc[p] = "scan"
  /\ aIdx[p] > Len(CurArticles(p))
  /\ summaries' = [summaries EXCEPT ![p] =
       Append(@, NotFoundResult(CurHeadline(p).headline, CurArticles(p)))]
  /\ hIdx' = [hIdx EXCEPT ![p] = @ + 1]
  /\ sumPc' = [sumPc EXCEPT ![p] = "headline"]
  /\ UNCHANGED <<searchVars, scrapeVars, unitVars>>
  /\ UNCHANGED <<scrapedResults, aIdx, wakeAt, sumSuccessCount, lastApiCallTime,
                 now, events>>

SummarizeReturnCountingHeadlines(p) ==
  [success |-> TRUE,
   totalHeadlines |-> Len(scrapedResults[p]),
   successfulSummaries |-> Len(summaries[p]),
   failedSummaries |-> Len(scrapedResults[p]) - Len(summaries[p]),
   summaries |-> summaries[p]]

\* lines 388-395: the object summarizeHeadlines returns
SummarizeReturn(p) ==
  [success |-> TRUE,
   totalHeadlines |-> Len(scrapedResults[p]),
   successfulSummaries |-> sumSuccessCount[p],
   failedSummaries |-> Len(scrapedResults[p]) - sumSuccessCount[p],
   summaries |-> summaries[p]]

\* lines 384-395
SummarizeReturns(p) ==
  /\ sumPc[p] = "headline"
  /\ hIdx[p] > Len(scrapedResults[p])
  /\ sumPc' = [sumPc EXCEPT ![p] = "done"]
  /\ UNCHANGED <<searchVars, scrapeVars, unitVars>>
  /\ UNCHANGED <<scrapedResults, hIdx, aIdx, wakeAt, summaries, sumSuccessCount,
                 lastApiCallTime, now, events>>

\* time passes while the runs are suspended in sleep() or in the model call (or
\* not entered yet, or over); the synchronous code between two suspension
\* points takes no time at this resolution, and no sleep() timer is overdue
Tick ==
  /\ \A p \in Runs : sumPc[p] \in {"idle", "sleep", "call", "done"}
  /\ \E p \in Runs : sumPc[p] \in {"sleep", "call"}
  /\ \A p \in Runs : sumPc[p] = "sleep" => now < wakeAt[p]
  /\ now + TickStep <= MaxClock
  /\ now' = now + TickStep
  /\ UNCHANGED <<searchVars, scrapeVars, unitVars>>
  /\ UNCHANGED <<scrapedResults, sumPc, hIdx, aIdx, wakeAt, summaries,
                 sumSuccessCount, lastApiCallTime, events>>

NextSummarize ==
  \/ \E p \in Runs : StartRun(p)
  \/ \E p \in Runs : HeadlineWithoutArticles(p)
  \/ \E p \in Runs : EnterHeadline(p)
  \/ \E p \in Runs : SkipArticle(p)
  \/ \E p \in Runs : CallWithoutWait(p)
  \/ \E p \in Runs : WaitBeforeCall(p)
  \/ \E p \in Runs : CallAfterWait(p)
  \/ \E p \in Runs : \E resp \in Responses : ModelResponds(p, resp)
  \/ \E p \in Runs : NoRelevantContent(p)
  \/ \E p \in Runs : SummarizeReturns(p)
  \/ Tick

(***************************************************************************)
(* SEARCH RESPONSE   src/searxngService.js, parseSearchResults             *)
(***************************************************************************)
\* an entry of response.data.results, named by its position; an absent or
\* empty title or url is the empty string
BackendEntry(i, hasUrl, hasTitle) ==
  [url |-> IF hasUrl THEN <<"url", i>> ELSE <<>>,
   title |-> IF hasTitle THEN <<"title", i>> ELSE <<>>]

BackendLists ==
  UNION {{[i \in 1..n |-> BackendEntry(i, u[i], t[i])] :
            u \in [1..n -> BOOLEAN], t \in [1..n -> BOOLEAN]}
         : n \in 0..MaxBackendResults}

\* response.data: its results field may be missing or not an array
BackendData ==
  {[isArray |-> TRUE, results |-> l] : l \in BackendLists}
  \cup {[isArray |-> FALSE, results |-> <<>>]}

ParsedEntryRankFromZero(result, index) ==
  [rank |-> index,
   title |-> IF result.title # <<>> THEN result.title ELSE <<"No title">>,
   url |-> result.url]

\* lines 204-212: result.title || 'No title', result.url || ''
ParsedEntry(result, index) ==
  [rank |-> index + 1,
   title |-> IF result.title # <<>> THEN result.title ELSE <<"No title">>,
   url |-> result.url]

\* line 213: the filter result.url && result.title
HasUrlAndTitle(result) == result.url # <<>> /\ result.title # <<>>

\* lines 197-214
parseSearchResults(data, maxResults) ==
  IF ~data.isArray
    THEN <<>>
    ELSE LET sliced == SubSeq(data.results, 1, Min(maxResults, Len(data.results)))
             mapped == [k \in 1..Len(sliced) |-> ParsedEntry(sliced[k], k - 1)]
         IN  SelectSeq(mapped, HasUrlAndTitle)

InitParse ==
  /\ backendData \in BackendData
  /\ resultsCount \in 1..MaxResultsCount
  /\ parsePc = "request"
  /\ parseReturn = <<>>

\* makeSearchRequest lines 171-176 and searchHeadline lines 33-42: the backend
\* answered with status 200 and data
ParseResponse ==
  /\ parsePc = "request"
  /\ LET searchResults == [success |-> TRUE,
                           results |-> parseSearchResults(backendData, resultsCount)]
     IN  parseReturn' = [success |-> TRUE, results |-> searchResults.results,
                         totalFound |-> Len(searchResults.results)]
  /\ parsePc' = "done"
  /\ UNCHANGED <<searchVars, scrapeVars, sumVars, urlVars, emailVars, restVars>>
  /\ UNCHANGED <<backendData, resultsCount>>

NextParse == ParseResponse

(***************************************************************************)
(* ONE FETCH   src/unnamed/part_004, ArticleScraper.scrapeUrl              *)
(***************************************************************************)
Urls == {"u1", "u2"}

\* getRandomDelay, lines 27-30: an integer of delayRange; its two ends
DelayChoices == {MinDelay, MaxDelay}

\* getHeaders, lines 32-34: an index into this.userAgents (lines 11-15)
UserAgents == 1..3

PageWords == {"word", "Subscribe"}
\* a word of the article, and an artifact that cleanText removes

\* response.data, as the words of the text of its content element
Bodies == UNION {[1..n -> PageWords] : n \in 0..MaxBodyWords}

\* lines 134-136: cheerio.load and extractContent; cleanText (lines 88-105)
\* removes the artifacts and joins the words with single blanks
extractContent(body) == SelectSeq(body, LAMBDA w : w # "Subscribe")

\* line 140: content.split(/\s+/); the empty content splits into ['']
SplitWords(content) == IF content = <<>> THEN <<"">> ELSE content

\* how one HTTP attempt ends: a response below 400 that is parsed; a 4xx
\* response (line 131); a 5xx response, rejected by validateStatus (line 20);
\* a timeout or network error; an exception while the page is parsed
AttemptOutcomes == {"ok", "status4xx", "status5xx", "network", "parse"}

\* the status of the response; 0: no response (timeout or network error)
ResponseStatus(outcome) ==
  CASE outcome \in {"ok", "parse"} -> 200
    [] outcome = "status4xx" -> 404
    [] outcome = "status5xx" -> 500
    [] OTHER -> 0

\* constructor line 20: validateStatus: (status) => status < 500; axios
\* rejects the request when it is false
validateStatus(status) == status < 500

StatusCheckServerErrorsOnly(status) == status >= 500

\* line 131: if (response.status >= 400) throw
StatusCheck(status) == status >= 400

\* the attempt ends in the catch block of line 155
AttemptThrows(outcome) ==
  \/ outcome = "network"
  \/ ~validateStatus(ResponseStatus(outcome))
  \/ StatusCheck(ResponseStatus(outcome))
  \/ outcome = "parse"

\* constructor line 8: options.maxRetries || 2
ScraperMaxRetries ==
  IF optionsMaxRetries # 0 THEN optionsMaxRetries ELSE DefaultScraperRetries

MayRetryFetchOnceMore(attempt) == attempt <= ScraperMaxRetries

\* line 156
MayRetryFetch(attempt) == attempt < ScraperMaxRetries

FetchedRecordCountingAttempts(url, body) ==
  [success |-> TRUE, url |-> url, error |-> "",
   content |-> extractContent(body),
   wordCount |-> Len(SplitWords(extractContent(body))) + urlAttempt - 1]

\* lines 134-153
FetchedRecord(url, body) ==
  LET content == extractContent(body)
      words == SplitWords(content)
  IN  [success |-> TRUE, url |-> url, error |-> "",
       content |-> content, wordCount |-> Len(words)]

\* lines 163-168: error.message || 'Scraping failed'
FailureRecord(url, outcome) == [success |-> FALSE, url |-> url, error |-> outcome]

\* scrapeUrl(url) is called on a scraper constructed with one of retries:
\* lines 119-122, the first sleep is pending
ScrapeUrlCalled(retries) ==
  /\ optionsMaxRetries \in retries
  /\ urlArg \in Urls
  /\ urlPc = "sleep"
  /\ urlAttempt = 1
  /\ urlDelay \in DelayChoices
  /\ urlLog = <<>>
  /\ urlReturn = <<>>
  /\ urlAgent = 1
  /\ urlBody = <<>>
  /\ firstFetch = <<>>

InitScrapeUrl == ScrapeUrlCalled(0..MaxOptionRetries)

\* the default configuration (app.js line 19)
InitRefetch == ScrapeUrlCalled({0})

\* lines 122-129: the sleep is over and the HTTP request is sent
SendRequest ==
  /\ urlPc = "sleep"
  /\ urlLog' = Append(urlLog, [attempt |-> urlAttempt, delay |-> urlDelay,
                               outcome |-> "pending"])
  /\ urlAgent' \in UserAgents
  /\ urlPc' = "request"
  /\ UNCHANGED <<searchVars, scrapeVars, sumVars, parseVars, emailVars, restVars>>
  /\ UNCHANGED <<optionsMaxRetries, urlArg, urlAttempt, urlDelay, urlReturn, urlBody,
                 firstFetch>>

\* lines 126-153 or, on any exception, lines 155-169: a success record, a
\* retry sleep of twice a random delay, or the failure record
AttemptEnds(outcome) ==
  /\ urlPc = "request"
  /\ urlLog' = [urlLog EXCEPT ![Len(urlLog)].outcome = outcome]
  /\ IF ~AttemptThrows(outcome)
       THEN /\ \E body \in Bodies :
                 /\ urlBody' = body
                 /\ urlReturn' = FetchedRecord(urlArg, body)
            /\ urlPc' = "done"
            /\ UNCHANGED urlDelay
       ELSE IF MayRetryFetch(urlAttempt)
         THEN /\ \E d \in DelayChoices : urlDelay' = d * 2
              /\ urlPc' = "retrySleep"
              /\ UNCHANGED <<urlReturn, urlBody>>
         ELSE /\ urlReturn' = FailureRecord(urlArg, outcome)
              /\ urlPc' = "done"
              /\ UNCHANGED <<urlDelay, urlBody>>
  /\ UNCHANGED <<searchVars, scrapeVars, sumVars, parseVars, emailVars, restVars>>
  /\ UNCHANGED <<optionsMaxRetries, urlArg, urlAttempt, urlAgent, firstFetch>>

\* lines 158-159 and 119-122: the retry sleep is over, scrapeUrl(url, attempt + 1)
\* is entered and its sleep is pending
RetryFetch ==
  /\ urlPc = "retrySleep"
  /\ urlAttempt' = urlAttempt + 1
  /\ urlDelay' \in DelayChoices
  /\ urlPc' = "sleep"
  /\ UNCHANGED <<searchVars, scrapeVars, sumVars, parseVars, emailVars, restVars>>
  /\ UNCHANGED <<optionsMaxRetries, urlArg, urlLog, urlReturn, urlAgent, urlBody,
                 firstFetch>>

\* scrapeHeadlineResults line 218 calls scrapeUrl once per URL of every
\* headline, so a URL found for two headlines is fetched twice; the calls share
\* no state, the second one is taken after the first has returned
ScrapeAgain ==
  /\ urlPc = "done"
  /\ firstFetch = <<>>
  /\ firstFetch' = [return |-> urlReturn, body |-> urlBody, attempts |-> Len(urlLog),
                    agent |-> urlAgent, delay |-> urlLog[Len(urlLog)].delay]
  /\ urlPc' = "sleep"
  /\ urlAttempt' = 1
  /\ urlDelay' \in DelayChoices
  /\ urlLog' = <<>>
  /\ urlReturn' = <<>>
  /\ urlBody' = <<>>
  /\ UNCHANGED <<searchVars, scrapeVars, sumVars, parseVars, emailVars, restVars>>
  /\ UNCHANGED <<optionsMaxRetries, urlArg, urlAgent>>

NextScrapeUrl ==
  \/ SendRequest
  \/ \E outcome \in AttemptOutcomes : AttemptEnds(outcome)
  \/ RetryFetch

NextRefetch == NextScrapeUrl \/ ScrapeAgain

(***************************************************************************)
(* EMAIL RUN   src/app.js, processEmails and processEmailsBatch            *)
(***************************************************************************)
\* an email; fails: a call made while it is processed (a persistence call of
\* processSingleEmail, lines 39-42) throws
Email(i, fails) == [id |-> i, fails |-> fails]

EmailLists ==
  UNION {{[i \in 1..n |-> Email(i, f[i])] : f \in [1..n -> BOOLEAN]}
         : n \in 0..MaxEmails}

\* emails.slice(i, i + batchSize)
EmailBatch == emailStart..Min(emailStart + emailBatchSize - 1, Len(emails))

\* processSingleEmail lines 117-130: the returned object
EmailResult(email) == [msgId |-> email.id]

\* processEmails lines 223-244: the emails are fetched, processEmailsBatch is
\* entered
InitEmails ==
  /\ emails \in EmailLists
  /\ emailBatchSize \in 1..MaxBatchSize
  /\ emailPc = "loop"
  /\ emailStart = 1
  /\ emailTasks = [k \in {} |-> "none"]
  /\ emailResults = <<>>
  /\ emailReturn = <<>>

\* processEmailsBatch lines 357-364: slice the batch, call processSingleEmail
\* on each of its emails
StartEmailBatch ==
  /\ emailPc = "loop"
  /\ emailStart <= Len(emails)
  /\ emailTasks' = [k \in DOMAIN emailTasks \cup EmailBatch |->
                      IF k \in EmailBatch THEN "running" ELSE emailTasks[k]]
  /\ emailPc' = "await"
  /\ UNCHANGED <<searchVars, scrapeVars, sumVars, parseVars, urlVars, restVars>>
  /\ UNCHANGED <<emails, emailBatchSize, emailStart, emailResults, emailReturn>>

\* processSingleEmail lines 33-130: the pipeline of the email ran and its
\* result is returned
EmailResolves(k) ==
  /\ k \in DOMAIN emailTasks
  /\ emailTasks[k] = "running"
  /\ ~emails[k].fails
  /\ emailTasks' = [emailTasks EXCEPT ![k] = "resolved"]
  /\ UNCHANGED <<searchVars, scrapeVars, sumVars, parseVars, urlVars, restVars>>
  /\ UNCHANGED <<emails, emailBatchSize, emailPc, emailStart, emailResults, emailReturn>>

\* processSingleEmail lines 131-134: the exception is logged and thrown again
EmailRejects(k) ==
  /\ k \in DOMAIN emailTasks
  /\ emailTasks[k] = "running"
  /\ emails[k].fails
  /\ emailTasks' = [emailTasks EXCEPT ![k] = "rejected"]
  /\ UNCHANGED <<searchVars, scrapeVars, sumVars, parseVars, urlVars, restVars>>
  /\ UNCHANGED <<emails, emailBatchSize, emailPc, emailStart, emailResults, emailReturn>>

\* processEmailsBatch lines 365-367: Promise.all resolved, the results of the
\* batch are pushed
EmailBatchResolved ==
  /\ emailPc = "await"
  /\ \A k \in EmailBatch : emailTasks[k] = "resolved"
  /\ emailResults' = emailResults \o
       [j \in 1..Cardinality(EmailBatch) |-> EmailResult(emails[emailStart + j - 1])]
  /\ emailStart' = emailStart + emailBatchSize
  /\ emailPc' = "loop"
  /\ UNCHANGED <<searchVars, scrapeVars, sumVars, parseVars, urlVars, restVars>>
  /\ UNCHANGED <<emails, emailBatchSize, emailTasks, emailReturn>>

\* processEmailsBatch line 365 and processEmails lines 338-347: Promise.all
\* rejects with the first rejection, processEmailsBatch throws, the catch
\* block of processEmails returns
EmailBatchRejected ==
  /\ emailPc = "await"
  /\ \E k \in EmailBatch : emailTasks[k] = "rejected"
  /\ emailReturn' = [processed |-> 0, results |-> <<>>, error |-> TRUE]
  /\ emailPc' = "done"
  /\ UNCHANGED <<searchVars, scrapeVars, sumVars, parseVars, urlVars, restVars>>
  /\ UNCHANGED <<emails, emailBatchSize, emailStart, emailTasks, emailResults>>

\* processEmailsBatch line 373 and processEmails lines 321-336 (230-239 when
\* there are no emails)
EmailsReturn ==
  /\ emailPc = "loop"
  /\ emailStart > Len(emails)
  /\ emailReturn' = [processed |-> Len(emails), results |-> emailResults,
                     error |-> FALSE]
  /\ emailPc' = "done"
  /\ UNCHANGED <<searchVars, scrapeVars, sumVars, parseVars, urlVars, restVars>>
  /\ UNCHANGED <<emails, emailBatchSize, emailStart, emailTasks, emailResults>>

NextEmails ==
  \/ StartEmailBatch
  \/ \E k \in DOMAIN emailTasks : EmailResolves(k)
  \/ \E k \in DOMAIN emailTasks : EmailRejects(k)
  \/ EmailBatchResolved
  \/ EmailBatchRejected
  \/ EmailsReturn

(***************************************************************************)
(* CLEAN TEXT   src/unnamed/part_004 lines 88-105 (ArticleScraper.cleanText)*)
(* A text is a sequence of tokens: a token is a whitespace character or a  *)
(* word, and consecutive words are adjacent in the text ("Sign", "up" is   *)
(* the text "Signup").                                                     *)
(***************************************************************************)
stageVars == <<searchVars, scrapeVars, sumVars, parseVars, urlVars, emailVars>>

\* what the actions on texts leave alone
textFrame == <<stageVars, pageVars, userVars, mailVars, procVars>>

\* lines 95-98
Artifacts ==
  << <<"Advertisement">>, <<"ADVERTISEMENT">>, <<"Cookie", " ", "Notice">>,
     <<"Subscribe">>, <<"Sign", " ", "up">>, <<"Newsletter">>,
     <<"Share", " ", "this">> >>

TextTokens == {" ", "\n", "word", "Sign", "up", "Subscribe", "SUBSCRIBE"}

Texts == UNION {[1..n -> TextTokens] : n \in 0..MaxTokens}

\* the letters of a token without their case (the i flag of line 101)
ToLowerCase(token) ==
  CASE token \in {"Advertisement", "ADVERTISEMENT"} -> "advertisement"
    [] token \in {"Subscribe", "SUBSCRIBE"} -> "subscribe"
    [] token = "Cookie" -> "cookie"
    [] token = "Notice" -> "notice"
    [] token = "Sign" -> "sign"
    [] token = "Newsletter" -> "newsletter"
    [] token = "Share" -> "share"
    [] OTHER -> token

\* the text starts with the phrase, in any letter case
MatchesAt(text, phrase) ==
  /\ Len(text) >= Len(phrase)
  /\ \A k \in 1..Len(phrase) : ToLowerCase(text[k]) = ToLowerCase(phrase[k])

\* line 101: text.replace(new RegExp(artifact, 'gi'), ' ') replaces the matches
\* found from left to right, each search resuming behind the last match
RECURSIVE ReplaceAll(_, _)
ReplaceAll(text, phrase) ==
  IF text = <<>> THEN text
  ELSE IF MatchesAt(text, phrase)
         THEN <<" ">> \o ReplaceAll(SubSeq(text, Len(phrase) + 1, Len(text)), phrase)
         ELSE <<Head(text)>> \o ReplaceAll(Tail(text), phrase)

\* lines 100-102: artifacts.forEach, from the artifact at position k on
RECURSIVE RemoveArtifacts(_, _)
RemoveArtifacts(text, k) ==
  IF k > Len(Artifacts) THEN text
  ELSE RemoveArtifacts(ReplaceAll(text, Artifacts[k]), k + 1)

\* lines 88-105; text.split(/\s+/).join(' ') puts one blank for each run of
\* whitespace, at the ends of the text too
cleanText(text) ==
  IF text = <<>> THEN <<>>
  ELSE Trim(CollapseWhiteSpace(RemoveArtifacts(CollapseWhiteSpace(text), 1)))

\* cleanText is called on any text
InitCleanText ==
  /\ textArg \in Texts
  /\ textPc = "called"
  /\ textReturn = <<>>
  /\ textFirst = <<>>

\* lines 88-105
CleanTextReturns ==
  /\ textPc = "called"
  /\ textReturn' = cleanText(textArg)
  /\ textPc' = "done"
  /\ UNCHANGED <<textArg, textFirst>>
  /\ UNCHANGED textFrame

\* cleanText is called on the text it returned
CleanTextAgain ==
  /\ textPc = "done"
  /\ textFirst = <<>>
  /\ textFirst' = <<[arg |-> textArg, return |-> textReturn]>>
  /\ textArg' = textReturn
  /\ textReturn' = <<>>
  /\ textPc' = "called"
  /\ UNCHANGED textFrame

NextCleanText ==
  \/ CleanTextReturns
  \/ CleanTextAgain

(***************************************************************************)
(* EXTRACT CONTENT   src/unnamed/part_004 lines 46-86                      *)
(* (ArticleScraper.extractContent). A page is given by the first element   *)
(* each selector matches, if any, and by the <p> elements outside of the   *)
(* matched elements; script, style and noscript are removed already.       *)
(***************************************************************************)
pageFrame == <<stageVars, textVars, userVars, mailVars, procVars>>

\* lines 53-58
Selectors ==
  <<"article", "main", "[role='main']", ".article-content", ".article-body",
    ".post-content", ".entry-content", ".content", "#content", ".story-body",
    "[itemprop='articleBody']", ".article__body">>

\* the text of the <p> inside the element a selector matches
ParagraphIn ==
  <<"article p", "main p", "[role='main'] p", ".article-content p",
    ".article-body p", ".post-content p", ".entry-content p", ".content p",
    "#content p", ".story-body p", "[itemprop='articleBody'] p",
    ".article__body p">>

\* $(selector).first() of a selector that matches nothing: length 0
NoElement == [exists |-> FALSE, length |-> 0, text |-> "", paragraphs |-> <<>>]

Paragraph(text, length) == [text |-> text, length |-> length]

\* an element selector k may match: trimmed text of `length` characters, with
\* or without a <p> of 31 characters inside
Element(k, length, withParagraph) ==
  [exists |-> TRUE, length |-> length, text |-> Selectors[k],
   paragraphs |-> IF withParagraph THEN <<Paragraph(ParagraphIn[k], 31)>> ELSE <<>>]

ElementKinds == {50, 51} \X BOOLEAN

\* the <p> elements outside of the matched elements, of 30 and 31 characters
LooseParagraphs ==
  {<<>>, <<Paragraph("p30", 30)>>, <<Paragraph("p31", 31)>>,
   <<Paragraph("p30", 30), Paragraph("p31", 31)>>}

\* the page in which the selectors of `matched` match elements of the given
\* kinds, with the <p> elements `loose` outside of them
Page(matched, kinds, loose) ==
  [matches |-> [k \in 1..Len(Selectors) |->
                  IF k \in matched THEN Element(k, kinds[k][1], kinds[k][2])
                                   ELSE NoElement],
   loose |-> loose]

MatchedSets == {m \in SUBSET (1..Len(Selectors)) : Cardinality(m) <= MaxMatched}

\* $('p'): every <p> of the page
RECURSIVE ParagraphsFrom(_, _)
ParagraphsFrom(matches, k) ==
  IF k > Len(matches) THEN <<>>
  ELSE matches[k].paragraphs \o ParagraphsFrom(matches, k + 1)

AllParagraphs(p) == ParagraphsFrom(p.matches, 1) \o p.loose

\* lines 60-63: contentElement when the loop is left, entered at selector k
RECURSIVE ContentElement(_, _)
ContentElement(p, k) ==
  LET contentElement == p.matches[k] IN
  IF contentElement.exists /\ contentElement.length > 50 THEN contentElement
  ELSE IF k = Len(Selectors) THEN contentElement
  ELSE ContentElement(p, k + 1)

\* .map(text).get().filter(longer than min).join('\n\n')
RECURSIVE JoinParagraphs(_, _)
JoinParagraphs(paragraphs, min) ==
  LET kept == SelectSeq(paragraphs, LAMBDA q : q.length > min) IN
  IF kept = <<>> THEN <<>>
  ELSE IF Len(kept) = 1 THEN <<kept[1].text>>
  ELSE <<kept[1].text, "\n", "\n">> \o JoinParagraphs(Tail(kept), min)

\* lines 66-76: the text of the container
ContainerText(contentElement) ==
  IF contentElement.paragraphs # <<>>
    THEN JoinParagraphs(contentElement.paragraphs, 0)
    ELSE <<contentElement.text>>

\* lines 77-83: the fallback
FallbackText(p) == JoinParagraphs(AllParagraphs(p), 30)

\* lines 46-86, on a page
extractContentOfPage(p) ==
  LET contentElement == ContentElement(p, 1) IN
  cleanText(IF contentElement.exists THEN ContainerText(contentElement)
                                     ELSE FallbackText(p))

InitExtract ==
  /\ \E matched \in MatchedSets : \E kinds \in [matched -> ElementKinds] :
       \E loose \in LooseParagraphs : page = Page(matched, kinds, loose)
  /\ pagePc = "called"
  /\ pageReturn = <<>>

\* lines 46-86
ExtractReturns ==
  /\ pagePc = "called"
  /\ pageReturn' = extractContentOfPage(page)
  /\ pagePc' = "done"
  /\ UNCHANGED page
  /\ UNCHANGED pageFrame

NextExtract == ExtractReturns

(***************************************************************************)
(* FIND OR CREATE USER   src/unnamed/part_001 lines 10-27                  *)
(* (DatabaseService.findOrCreateUser), called by processSingleEmail for    *)
(* every email of a batch at once (src/app.js lines 40, 364-365)           *)
(***************************************************************************)
userFrame == <<stageVars, textVars, pageVars, mailVars, procVars>>

Senders == {"a@mail", "b@mail"}

UserRow(email) == [id |-> email]

\* prisma.user.findUnique, lines 12-14: the row or null
FindUnique(email) == {u \in users : u.id = email}

\* schema.prisma line 15: id is the primary key of users
UniqueConstraintFails(email) == \E u \in users : u.id = email

\* app.js lines 364-365 and 40: every email of the batch has called
\* findOrCreateUser with its sender, and each call awaits findUnique
InitUsers ==
  /\ users \in {{UserRow(e) : e \in known} : known \in SUBSET Senders}
  /\ userArg \in UNION {[1..n -> Senders] : n \in 1..MaxCalls}
  /\ userPc = [c \in DOMAIN userArg |-> "find"]
  /\ userReturn = [c \in DOMAIN userArg |-> <<>>]

\* lines 12-22: findUnique answers; the user is returned, or create is awaited
FindAnswers(c) ==
  /\ userPc[c] = "find"
  /\ IF FindUnique(userArg[c]) # {}
       THEN /\ userPc' = [userPc EXCEPT ![c] = "done"]
            /\ userReturn' = [userReturn EXCEPT ![c] = UserRow(userArg[c])]
       ELSE /\ userPc' = [userPc EXCEPT ![c] = "create"]
            /\ UNCHANGED userReturn
  /\ UNCHANGED <<users, userArg>>
  /\ UNCHANGED userFrame

\* lines 18-26: create answers with the new row, or rejects because a row
\* with this id exists, which the catch logs and rethrows
CreateAnswers(c) ==
  /\ userPc[c] = "create"
  /\ IF UniqueConstraintFails(userArg[c])
       THEN /\ userPc' = [userPc EXCEPT ![c] = "threw"]
            /\ UNCHANGED <<users, userReturn>>
       ELSE /\ users' = users \cup {UserRow(userArg[c])}
            /\ userPc' = [userPc EXCEPT ![c] = "done"]
            /\ userReturn' = [userReturn EXCEPT ![c] = UserRow(userArg[c])]
  /\ UNCHANGED userArg
  /\ UNCHANGED userFrame

NextUsers ==
  \/ \E c \in DOMAIN userArg : FindAnswers(c)
  \/ \E c \in DOMAIN userArg : CreateAnswers(c)

(***************************************************************************)
(* GET FORWARDED EMAILS   src/gmailService.js lines 72-155                 *)
(* (GmailService.getForwardedEmails)                                       *)
(***************************************************************************)
mailFrame == <<stageVars, textVars, pageVars, userVars, procVars>>

MessageIds == 1..MaxMessages

\* lines 127-136: the email pushed for a message
EmailOf(id) == [id |-> id]

\* the messages that match 'subject:Fwd: is:unread', in the order of their ids
RECURSIVE Listed(_, _)
Listed(ids, from) ==
  IF from > MaxMessages THEN <<>>
  ELSE (IF from \in ids THEN <<[id |-> from]>> ELSE <<>>) \o Listed(ids, from + 1)

\* lines 73-80: the list request is sent
InitMail ==
  /\ unread \in SUBSET MessageIds
  /\ messages = <<>>
  /\ mailPc = "list"
  /\ mailIdx = 1
  /\ mailEmails = <<>>
  /\ mailReturn = <<>>

\* lines 77-84 and 148-154: the list request answers; with no message the
\* empty list is returned; a failure is logged and rethrown
ListAnswers(ok) ==
  /\ mailPc = "list"
  /\ IF ok
       THEN /\ messages' = Listed(unread, 1)
            /\ mailPc' = IF Listed(unread, 1) = <<>> THEN "done" ELSE "get"
       ELSE /\ mailPc' = "threw"
            /\ UNCHANGED messages
  /\ UNCHANGED <<unread, mailIdx, mailEmails, mailReturn>>
  /\ UNCHANGED mailFrame

\* lines 90-136: messages.get answers, the email is built and pushed, and
\* messages.modify is sent; a failure of the request or of the extraction is
\* logged and rethrown (lines 150-153)
GetAnswers(ok) ==
  /\ mailPc = "get"
  /\ IF ok
       THEN /\ mailEmails' = Append(mailEmails, EmailOf(messages[mailIdx].id))
            /\ mailPc' = "modify"
       ELSE /\ mailPc' = "threw"
            /\ UNCHANGED mailEmails
  /\ UNCHANGED <<unread, messages, mailIdx, mailReturn>>
  /\ UNCHANGED mailFrame

\* lines 139-148: messages.modify has removed the UNREAD label; the loop goes
\* on to the next message or the emails are returned; a failure is logged and
\* rethrown (lines 150-153)
ModifyAnswers(ok) ==
  /\ mailPc = "modify"
  /\ IF ok
       THEN /\ unread' = unread \ {messages[mailIdx].id}
            /\ mailIdx' = mailIdx + 1
            /\ IF mailIdx + 1 > Len(messages)
                 THEN mailPc' = "done" /\ mailReturn' = mailEmails
                 ELSE mailPc' = "get" /\ UNCHANGED mailReturn
       ELSE /\ mailPc' = "threw"
            /\ UNCHANGED <<unread, mailIdx, mailReturn>>
  /\ UNCHANGED <<messages, mailEmails>>
  /\ UNCHANGED mailFrame

NextMail ==
  \/ \E ok \in BOOLEAN : ListAnswers(ok)
  \/ \E ok \in BOOLEAN : GetAnswers(ok)
  \/ \E ok \in BOOLEAN : ModifyAnswers(ok)

(***************************************************************************)
(* PROCESS SINGLE EMAIL   src/app.js lines 33-135 (processSingleEmail),    *)
(* with the saves of DatabaseService (src/unnamed/part_001 lines 63-146).  *)
(* The stages are taken by what they give back to processSingleEmail.      *)
(***************************************************************************)
procFrame == <<stageVars, textVars, pageVars, userVars, mailVars>>

Tables == {"headlines", "searchResults", "scrapedResults", "summaries"}

NoRow == [saved |-> FALSE, data |-> "", total |-> 0, successful |-> 0]

\* part_001 lines 65-72, 84-94, 108-116, 132-140: the row one create inserts
Row(data) ==
  [saved |-> TRUE, data |-> data, total |-> procHeadlines,
   successful |-> IF data = "headlines" THEN 0 ELSE procOutput]

Called(step) == [step |-> step, event |-> "called"]

Settled(step, ok) == [step |-> step, event |-> IF ok THEN "resolved" ELSE "rejected"]

\* a stage that resolved with a result object: its success flag
Reported(step, success) ==
  [step |-> step, event |-> IF success THEN "resolved" ELSE "reported failure"]

RowsAfterCreateAlways(table, data, ok) == [procSaved EXCEPT ![table] = Row(data)]

\* prisma create: the row is inserted and the call resolves, or it rejects
\* and no row is inserted
RowsAfterCreate(table, data, ok) ==
  IF ok THEN [procSaved EXCEPT ![table] = Row(data)] ELSE procSaved

\* lines 131-134: the catch logs and rethrows
AfterAwait(ok, next) == IF ok THEN next ELSE "threw"

NextAfterSearchIgnoringSuccess(success) == "saveSearchResults"

\* line 69: if (searchResults.success)
NextAfterSearch(success) ==
  IF success THEN "saveSearchResults" ELSE "getEmailProcessingData"

\* line 52: if (headlineResult.success && headlineResult.headlines.length > 0)
NextAfterExtract(success, count) ==
  IF success /\ count > 0 THEN "saveHeadlines" ELSE "getEmailProcessingData"

\* line 40: findOrCreateUser is called
InitSingleEmail ==
  /\ procPc = "findOrCreateUser"
  /\ procHeadlines = 0
  /\ procOutput = 0
  /\ procSaved = [t \in Tables |-> NoRow]
  /\ procLog = <<Called("findOrCreateUser")>>

\* the awaited call `step` settles; when it resolved, `next` is called
Await(step, ok, next) ==
  /\ procPc = step
  /\ procPc' = AfterAwait(ok, next)
  /\ procLog' = procLog \o <<Settled(step, ok)>>
                   \o (IF ok /\ next # "returned" THEN <<Called(next)>> ELSE <<>>)
  /\ UNCHANGED procFrame

\* lines 40-43
UserSettles(ok) ==
  /\ Await("findOrCreateUser", ok, "saveEmail")
  /\ UNCHANGED <<procHeadlines, procOutput, procSaved>>

\* lines 43-50
EmailSaveSettles(ok) ==
  /\ Await("saveEmail", ok, "extractNewsHeadlines")
  /\ UNCHANGED <<procHeadlines, procOutput, procSaved>>

\* lines 46-58 and 114: extractNewsHeadlines settles
ExtractSettles(ok, success, count) ==
  /\ Await("extractNewsHeadlines", ok, NextAfterExtract(success, count))
  /\ procHeadlines' = IF ok /\ success THEN count ELSE 0
  /\ UNCHANGED <<procOutput, procSaved>>

\* lines 54-67
HeadlinesSaveSettles(ok) ==
  /\ Await("saveHeadlines", ok, "searchMultipleHeadlinesParallel")
  /\ procSaved' = RowsAfterCreate("headlines", "headlines", ok)
  /\ UNCHANGED <<procHeadlines, procOutput>>

\* lines 62-75 and 114: the search stage returns (searxngService.js lines
\* 115-131: it catches every exception and returns success: false)
SearchSettles(success, successful) ==
  /\ procPc = "searchMultipleHeadlinesParallel"
  /\ procPc' = NextAfterSearch(success)
  /\ procLog' = procLog \o <<Reported("searchMultipleHeadlinesParallel", success),
                              Called(NextAfterSearch(success))>>
  /\ procOutput' = IF success THEN successful ELSE 0
  /\ UNCHANGED procFrame
  /\ UNCHANGED <<procHeadlines, procSaved>>

\* lines 71-83
SearchResultsSaveSettles(ok) ==
  /\ Await("saveSearchResults", ok, "scrapeHeadlineResults")
  /\ procSaved' = RowsAfterCreate("searchResults", "searchResults.results", ok)
  /\ UNCHANGED <<procHeadlines, procOutput>>

\* lines 79-90
ScrapeSettles(ok, successful) ==
  /\ Await("scrapeHeadlineResults", ok, "saveScrapedResults")
  /\ procOutput' = IF ok THEN successful ELSE procOutput
  /\ UNCHANGED <<procHeadlines, procSaved>>

\* lines 86-94
ScrapedResultsSaveSettles(ok) ==
  /\ Await("saveScrapedResults", ok, "summarizeHeadlines")
  /\ procSaved' = RowsAfterCreate("scrapedResults", "scrapedResults", ok)
  /\ UNCHANGED <<procHeadlines, procOutput>>

\* lines 94-102: summarizeHeadlines returns success: true, or throws
SummarizeSettles(ok, successful) ==
  /\ Await("summarizeHeadlines", ok, "saveSummaries")
  /\ procOutput' = IF ok THEN successful ELSE procOutput
  /\ UNCHANGED <<procHeadlines, procSaved>>

\* lines 98-114: the summaries are saved, the digest reply is sent without
\* being awaited, and the data of the email is fetched
SummariesSaveSettles(ok) ==
  /\ procPc = "saveSummaries"
  /\ procPc' = AfterAwait(ok, "getEmailProcessingData")
  /\ procLog' = procLog \o <<Settled("saveSummaries", ok)>>
                   \o (IF ok THEN <<Called("sendFinalDigestReply"),
                                     Called("getEmailProcessingData")>>
                             ELSE <<>>)
  /\ procSaved' = RowsAfterCreate("summaries", "summaryResults.summaries", ok)
  /\ UNCHANGED <<procHeadlines, procOutput>>
  /\ UNCHANGED procFrame

\* lines 114-134
DataSettles(ok) ==
  /\ Await("getEmailProcessingData", ok, "returned")
  /\ UNCHANGED <<procHeadlines, procOutput, procSaved>>

NextSingleEmail ==
  \/ \E ok \in BOOLEAN : UserSettles(ok)
  \/ \E ok \in BOOLEAN : EmailSaveSettles(ok)
  \/ \E ok, success \in BOOLEAN : \E count \in 0..MaxHeadlines :
       ExtractSettles(ok, success, count)
  \/ \E ok \in BOOLEAN : HeadlinesSaveSettles(ok)
  \/ \E success \in BOOLEAN : \E successful \in 0..procHeadlines :
       SearchSettles(success, successful)
  \/ \E ok \in BOOLEAN : SearchResultsSaveSettles(ok)
  \/ \E ok \in BOOLEAN : \E successful \in 0..procOutput :
       ScrapeSettles(ok, successful)
  \/ \E ok \in BOOLEAN : ScrapedResultsSaveSettles(ok)
  \/ \E ok \in BOOLEAN : \E successful \in 0..procOutput :
       SummarizeSettles(ok, successful)
  \/ \E ok \in BOOLEAN : SummariesSaveSettles(ok)
  \/ \E ok \in BOOLEAN : DataSettles(ok)

(***************************************************************************)
(* Specifications: one per stage or unit; the other variables rest         *)
(***************************************************************************)
SearchIdle ==
  /\ headlines = <<>>
  /\ maxParallel = 1
  /\ searchPc = "done"
  /\ chunkStart = 1
  /\ chunkPromises = [k \in {} |-> NoPromise]
  /\ settleOrder = <<>>
  /\ allResults = <<>>
  /\ successCount = 0
  /\ failureCount = 0
  /\ searchReturn = <<>>
  /\ staggerDelay = DefaultStaggerDelay
  /\ searchNow = 0
  /\ searchLog = [k \in {} |-> NewSearchLog]

ScrapeIdle ==
  /\ headlineSearchResults = <<>>
  /\ scrapeMaxParallel = 1
  /\ scrapePc = "done"
  /\ batchStart = 1
  /\ batchTasks = <<>>
  /\ fetches = [key \in {} |-> <<>>]
  /\ limiterActive = {}
  /\ limiterQueue = <<>>
  /\ results = <<>>

SummarizeIdle ==
  /\ scrapedResults = [p \in {} |-> <<>>]
  /\ sumPc = [p \in {} |-> "done"]
  /\ hIdx = [p \in {} |-> 1]
  /\ aIdx = [p \in {} |-> 1]
  /\ wakeAt = [p \in {} |-> 0]
  /\ summaries = [p \in {} |-> <<>>]
  /\ sumSuccessCount = [p \in {} |-> 0]
  /\ lastApiCallTime = 0
  /\ now = StartTime
  /\ events = [p \in {} |-> <<>>]

ParseIdle ==
  /\ backendData = [isArray |-> FALSE, results |-> <<>>]
  /\ resultsCount = 1
  /\ parsePc = "done"
  /\ parseReturn = <<>>

UrlIdle ==
  /\ optionsMaxRetries = 0
  /\ urlArg = "u1"
  /\ urlPc = "done"
  /\ urlAttempt = 1
  /\ urlDelay = MinDelay
  /\ urlLog = <<>>
  /\ urlReturn = <<>>
  /\ urlAgent = 1
  /\ urlBody = <<>>
  /\ firstFetch = <<>>

EmailIdle ==
  /\ emails = <<>>
  /\ emailBatchSize = 1
  /\ emailPc = "done"
  /\ emailStart = 1
  /\ emailTasks = [k \in {} |-> "none"]
  /\ emailResults = <<>>
  /\ emailReturn = <<>>

TextIdle ==
  /\ textArg = <<>>
  /\ textPc = "done"
  /\ textReturn = <<>>
  /\ textFirst = <<>>

PageIdle ==
  /\ page = [matches |-> <<>>, loose |-> <<>>]
  /\ pagePc = "done"
  /\ pageReturn = <<>>

UserIdle ==
  /\ users = {}
  /\ userArg = <<>>
  /\ userPc = <<>>
  /\ userReturn = <<>>

MailIdle ==
  /\ unread = {}
  /\ messages = <<>>
  /\ mailPc = "done"
  /\ mailIdx = 1
  /\ mailEmails = <<>>
  /\ mailReturn = <<>>

ProcIdle ==
  /\ procPc = "returned"
  /\ procHeadlines = 0
  /\ procOutput = 0
  /\ procSaved = <<>>
  /\ procLog = <<>>

RestIdle == TextIdle /\ PageIdle /\ UserIdle /\ MailIdle /\ ProcIdle

StagesIdle ==
  SearchIdle /\ ScrapeIdle /\ SummarizeIdle /\ ParseIdle /\ UrlIdle /\ EmailIdle

UnitsIdle == ParseIdle /\ UrlIdle /\ EmailIdle /\ RestIdle

InitSearchStage == InitSearch /\ ScrapeIdle /\ SummarizeIdle /\ UnitsIdle

InitSearchPlainStage == InitSearchPlain /\ ScrapeIdle /\ SummarizeIdle /\ UnitsIdle

InitSequentialStage == InitSequential /\ ScrapeIdle /\ SummarizeIdle /\ UnitsIdle

InitSearchHeadlineStage == InitSearchHeadline /\ ScrapeIdle /\ SummarizeIdle /\ UnitsIdle

InitScrapeStage == SearchIdle /\ InitScrape /\ SummarizeIdle /\ UnitsIdle

\* either stage is entered
InitEitherStage ==
  \/ InitSearchMixed /\ ScrapeIdle /\ SummarizeIdle /\ UnitsIdle
  \/ SearchIdle /\ InitScrapeWidest /\ SummarizeIdle /\ UnitsIdle

InitScrapeBatchesStage == SearchIdle /\ InitScrapeBatches /\ SummarizeIdle /\ UnitsIdle

InitParseStage ==
  /\ SearchIdle /\ ScrapeIdle /\ SummarizeIdle /\ InitParse /\ UrlIdle /\ EmailIdle
  /\ RestIdle

InitScrapeUrlStage ==
  /\ SearchIdle /\ ScrapeIdle /\ SummarizeIdle /\ ParseIdle /\ InitScrapeUrl /\ EmailIdle
  /\ RestIdle

InitRefetchStage ==
  /\ SearchIdle /\ ScrapeIdle /\ SummarizeIdle /\ ParseIdle /\ InitRefetch /\ EmailIdle
  /\ RestIdle

InitEmailsStage ==
  /\ SearchIdle /\ ScrapeIdle /\ SummarizeIdle /\ ParseIdle /\ UrlIdle /\ InitEmails
  /\ RestIdle

InitSummarizeStage ==
  /\ SearchIdle /\ ScrapeIdle /\ UnitsIdle
  /\ InitSummarizer({1}, ScrapedResultsUpTo(MaxSumHeadlines, MaxTotalArticles))

\* processEmailsBatch lines 364-365: the emails of a batch are processed
\* concurrently and their summarizeHeadlines runs share contentSummarizer
InitBatch ==
  /\ SearchIdle /\ ScrapeIdle /\ UnitsIdle
  /\ InitSummarizer(1..BatchEmails, ScrapedResultsUpTo(1, MaxBatchArticles))

\* searchMultipleHeadlinesParallel on any headline list
SpecSearch == InitSearchStage /\ [][NextSearch]_vars

\* searchMultipleHeadlinesParallel on any headline list, when every timer that
\* is due fires, every HTTP request settles and every continuation that is
\* ready runs: the event loop leaves no enabled step of the stage undone
SpecSearchFair == InitSearchPlainStage /\ [][NextSearch]_vars /\ WF_vars(NextSearch)

\* searchMultipleHeadlines on any headline list
SpecSequential == InitSequentialStage /\ [][NextSearch]_vars

\* the search of one headline of any text
SpecSearchHeadline == InitSearchHeadlineStage /\ [][NextSearch]_vars

\* scrapeHeadlineResults on any list of SearchResults
SpecScrape == InitScrapeStage /\ [][NextScrape]_vars

NextEitherStage == NextSearch \/ NextScrape

\* searchMultipleHeadlinesParallel on any headline list, or
\* scrapeHeadlineResults on any list of SearchResults
SpecEitherStage == InitEitherStage /\ [][NextEitherStage]_vars

\* a stage that takes the output of an earlier one is entered: the scrape
\* stage, or one summarizeHeadlines run
InitLaterStage ==
  \/ SearchIdle /\ InitScrapeWidest /\ SummarizeIdle /\ UnitsIdle
  \/ /\ SearchIdle /\ ScrapeIdle /\ UnitsIdle
     /\ InitSummarizer({1}, ScrapedResultsUpTo(1, MaxBatchArticles))

NextLaterStage == NextScrape \/ NextSummarize

\* scrapeHeadlineResults on any list of SearchResults, or summarizeHeadlines
\* on a list of one ScrapedHeadlineResult
SpecLaterStage == InitLaterStage /\ [][NextLaterStage]_vars

\* scrapeHeadlineResults on lists longer than one batch
SpecScrapeBatches == InitScrapeBatchesStage /\ [][NextScrape]_vars

\* one successful request of searchHeadline on any response of the backend
SpecParse == InitParseStage /\ [][NextParse]_vars

\* one scrapeUrl call, for any configured retry count
SpecScrapeUrl == InitScrapeUrlStage /\ [][NextScrapeUrl]_vars

\* two scrapeUrl calls on the same url, one after the other
SpecRefetch == InitRefetchStage /\ [][NextRefetch]_vars

\* one processEmails run on any list of emails
SpecEmails == InitEmailsStage /\ [][NextEmails]_vars

InitCleanTextStage ==
  StagesIdle /\ InitCleanText /\ PageIdle /\ UserIdle /\ MailIdle /\ ProcIdle

InitExtractStage ==
  StagesIdle /\ TextIdle /\ InitExtract /\ UserIdle /\ MailIdle /\ ProcIdle

InitUsersStage ==
  StagesIdle /\ TextIdle /\ PageIdle /\ InitUsers /\ MailIdle /\ ProcIdle

InitMailStage ==
  StagesIdle /\ TextIdle /\ PageIdle /\ UserIdle /\ InitMail /\ ProcIdle

InitSingleEmailStage ==
  StagesIdle /\ TextIdle /\ PageIdle /\ UserIdle /\ MailIdle /\ InitSingleEmail

\* one processSingleEmail call, each awaited call resolving or rejecting
SpecSingleEmail == InitSingleEmailStage /\ [][NextSingleEmail]_vars

\* one getForwardedEmails call on any mailbox, each request answering or failing
SpecMail == InitMailStage /\ [][NextMail]_vars

\* the findOrCreateUser calls of the emails of one batch, interleaved
SpecUsers == InitUsersStage /\ [][NextUsers]_vars

\* extractContent on any page in which at most MaxMatched selectors match
SpecExtract == InitExtractStage /\ [][NextExtract]_vars

\* cleanText on any text, and again on what it returned
SpecCleanText == InitCleanTextStage /\ [][NextCleanText]_vars

\* one summarizeHeadlines run (processSingleEmail, one email at a time)
SpecSummarize == InitSummarizeStage /\ [][NextSummarize]_vars

\* the summarizeHeadlines runs of the emails of one batch
SpecBatch == InitBatch /\ [][NextSummarize]_vars

(***************************************************************************)
(* PROPERTIES                                                              *)
(***************************************************************************)

\* C1: when searchMultipleHeadlinesParallel returns, results has one entry per
\* input headline and its i-th entry is the SearchResult of the i-th headline,
\* whatever maxParallel is and in whatever order the searches completed.
C1_SearchOrderPreserved ==
  searchPc = "done" =>
    /\ Len(searchReturn.results) = Len(headlines)
    /\ \A i \in 1..Len(headlines) : searchReturn.results[i].headline = headlines[i].id

\* C1 witness: the run returned and, in its last chunk, a search of a later
\* headline settled before the search of an earlier one.
C1_Witness ==
  /\ searchPc = "done"
  /\ Len(settleOrder) >= 2
  /\ settleOrder[1] > settleOrder[2]
  /\ searchReturn.results[settleOrder[1]].success

\* C2: when scrapeHeadlineResults returns, results has one entry per input
\* SearchResult and its i-th entry carries the headline of the i-th input entry.
C2_ScrapeHeadlineOrder ==
  scrapePc = "done" =>
    /\ Len(results) = Len(headlineSearchResults)
    /\ \A i \in 1..Len(headlineSearchResults) :
         results[i].headline = headlineSearchResults[i].headline

\* C3: the number of scrapeUrl calls started and not yet settled never exceeds
\* the maxParallel argument.
C3_FetchesBoundedByMaxParallel == Cardinality(InFlight) <= scrapeMaxParallel

\* the model calls a run initiated, as positions of its history
Calls(p) == {i \in 1..Len(events[p]) : events[p][i].type = "call"}

\* what the scan of headline h did, in run p: positions of its history
EventsOf(p, h, types) ==
  {i \in 1..Len(events[p]) : events[p][i].h = h /\ events[p][i].type \in types}

\* an article that is failed, lacks content or has content shorter than 100 characters
Ineligible(article) ==
  \/ article.success = FALSE
  \/ article.contentLength = 0
  \/ article.contentLength < 100

ZeroEligible(headlineData) ==
  \A a \in 1..Len(headlineData.scrapedArticles) :
    Ineligible(headlineData.scrapedArticles[a])

JudgedRelevant(p, h) ==
  {i \in EventsOf(p, h, {"verdict"}) : events[p][i].relevant}

\* C4: within one summarizeHeadlines run any two model calls are initiated at
\* least API_CALL_DELAY apart, also when they belong to different headlines.
C4_CallSpacingWithinRun ==
  \A p \in Runs : \A i, j \in Calls(p) :
    i < j => events[p][j].t - events[p][i].t >= API_CALL_DELAY

\* C4 witness: two calls of different headlines, the second made after a wait
\* and exactly the minimum interval after the first.
C4_Witness ==
  \E p \in Runs : \E i, j \in Calls(p) :
    /\ i < j
    /\ events[p][i].h # events[p][j].h
    /\ events[p][j].t - events[p][i].t = API_CALL_DELAY
    /\ events[p][j - 1].type = "wait"

\* C5: over all concurrently running summarizeHeadlines runs that share the
\* summarizer, no two model calls are initiated less than API_CALL_DELAY apart.
C5_CallSpacingAcrossRuns ==
  \A p, q \in Runs : \A i \in Calls(p) : \A j \in Calls(q) :
    (p # q \/ i # j) =>
      \/ events[q][j].t - events[p][i].t >= API_CALL_DELAY
      \/ events[p][i].t - events[q][j].t >= API_CALL_DELAY

\* C6: once an article of a headline is judged relevant no later article of that
\* headline is passed to the model, and a successful summary's articleIndex is
\* the 1-based position of the first article judged relevant.
C6_FirstMatch ==
  \A p \in Runs :
    /\ \A i, j \in 1..Len(events[p]) :
         (/\ i < j
          /\ events[p][i].type = "verdict" /\ events[p][i].relevant
          /\ events[p][j].type = "call")
         => events[p][j].h # events[p][i].h
    /\ \A k \in 1..Len(summaries[p]) :
         summaries[p][k].success =>
           \E i \in JudgedRelevant(p, k) :
             /\ \A j \in JudgedRelevant(p, k) : i <= j
             /\ summaries[p][k].articleIndex = events[p][i].a
             /\ events[p][i].a \in 1..Len(scrapedResults[p][k].scrapedArticles)

\* C6 witness: three articles, the first judged not relevant, the second
\* relevant: articleIndex is 2 and the third article was never passed on.
C6_Witness ==
  \E p \in Runs : \E k \in 1..Len(summaries[p]) :
    /\ Len(scrapedResults[p][k].scrapedArticles) = 3
    /\ ~Ineligible(scrapedResults[p][k].scrapedArticles[3])
    /\ summaries[p][k].success
    /\ summaries[p][k].articleIndex = 2
    /\ Cardinality(EventsOf(p, k, {"call"})) = 2

\* C7: on a successful summary totalArticlesChecked is the number of articles
\* the scan examined (skipped or passed to the model) up to and including the
\* matching article.
C7_TotalArticlesChecked ==
  \A p \in Runs : \A k \in 1..Len(summaries[p]) :
    summaries[p][k].success =>
      summaries[p][k].totalArticlesChecked
        = Cardinality(EventsOf(p, k, {"skip", "call"}))

\* C7 witness: a match found after one skipped and one eligible, not relevant,
\* article.
C7_Witness ==
  \E p \in Runs : \E k \in 1..Len(summaries[p]) :
    /\ summaries[p][k].success
    /\ summaries[p][k].totalArticlesChecked = 3
    /\ Cardinality(EventsOf(p, k, {"skip"})) = 1
    /\ Cardinality(EventsOf(p, k, {"call"})) = 2

\* C8: a headline with a non-empty scrapedArticles list of which no article is
\* judged relevant gets success = false, the reason that no relevant content
\* was found, and totalArticlesChecked equal to the number of articles checked,
\* which is the whole list.
C8_NoRelevantContent ==
  \A p \in Runs : \A k \in 1..Len(summaries[p]) :
    (/\ Len(scrapedResults[p][k].scrapedArticles) > 0
     /\ JudgedRelevant(p, k) = {})
    => /\ summaries[p][k].success = FALSE
       /\ summaries[p][k].reason = "No relevant content found in scraped articles"
       /\ summaries[p][k].totalArticlesChecked
            = Len(scrapedResults[p][k].scrapedArticles)
       /\ summaries[p][k].totalArticlesChecked
            = Cardinality(EventsOf(p, k, {"skip", "call"}))

\* C8 witness: the model answered not relevant for both of 2 eligible articles.
C8_Witness ==
  \E p \in Runs : \E k \in 1..Len(summaries[p]) :
    /\ Len(scrapedResults[p][k].scrapedArticles) = 2
    /\ Cardinality(EventsOf(p, k, {"verdict"})) = 2
    /\ JudgedRelevant(p, k) = {}
    /\ summaries[p][k].totalArticlesChecked = 2

\* C9: while a headline without any eligible article is processed, no model
\* call is initiated, no rate-limit wait is started and lastApiCallTime keeps
\* its value.
C9_ZeroEligibleNoCall ==
  [][\A p \in Runs :
       (/\ hIdx[p] <= Len(scrapedResults[p])
        /\ ZeroEligible(scrapedResults[p][hIdx[p]]))
       => /\ lastApiCallTime' = lastApiCallTime
          /\ sumPc'[p] \notin {"sleep", "call"}
          /\ wakeAt'[p] = wakeAt[p]
          /\ \A i \in 1..Len(events'[p]) :
               i > Len(events[p]) => events'[p][i].type = "skip"]_vars

\* C9 witness: after a model call for an earlier headline, a headline whose
\* non-empty list holds only ineligible articles has been processed.
C9_Witness ==
  \E p \in Runs : \E k \in 2..Len(summaries[p]) :
    /\ Len(scrapedResults[p][k].scrapedArticles) > 0
    /\ ZeroEligible(scrapedResults[p][k])
    /\ lastApiCallTime > 0

\* C10 as claimed: every headline without an eligible article, its list empty
\* or not, gets success = false and the reason "No articles to analyze".
C10_ZeroEligibleReason ==
  \A p \in Runs : \A k \in 1..Len(summaries[p]) :
    ZeroEligible(scrapedResults[p][k]) =>
      /\ summaries[p][k].success = FALSE
      /\ summaries[p][k].reason = "No articles to analyze"

\* C10 amended: a headline gets the reason "No articles to analyze" exactly
\* when its scrapedArticles list is empty; a headline whose non-empty list
\* holds only ineligible articles gets success = false and the reason
\* "No relevant content found in scraped articles".
C10_ReasonByEmptiness ==
  \A p \in Runs : \A k \in 1..Len(summaries[p]) :
    /\ summaries[p][k].reason = "No articles to analyze"
         <=> Len(scrapedResults[p][k].scrapedArticles) = 0
    /\ ZeroEligible(scrapedResults[p][k]) =>
         /\ summaries[p][k].success = FALSE
         /\ summaries[p][k].reason =
              (IF Len(scrapedResults[p][k].scrapedArticles) = 0
                 THEN "No articles to analyze"
                 ELSE "No relevant content found in scraped articles")

\* C10 witness: one run with a headline of each kind, both processed.
C10_Witness ==
  \E p \in Runs : \E k, m \in 1..Len(summaries[p]) :
    /\ Len(scrapedResults[p][k].scrapedArticles) = 0
    /\ Len(scrapedResults[p][m].scrapedArticles) > 0
    /\ ZeroEligible(scrapedResults[p][m])

\* the article a history entry of run p is about
ArticleOf(p, i) == scrapedResults[p][events[p][i].h].scrapedArticles[events[p][i].a]

\* C11: an article is passed to the model exactly when it has success set, has
\* content and its content is at least 100 characters long; every other
\* article visited by the scan is skipped (99 characters: skipped, 100: passed).
C11_EligibilityBoundary ==
  \A p \in Runs : \A i \in 1..Len(events[p]) :
    /\ events[p][i].type \in {"wait", "call"} =>
         /\ ArticleOf(p, i).success
         /\ ArticleOf(p, i).contentLength > 0
         /\ ArticleOf(p, i).contentLength >= 100
    /\ events[p][i].type = "skip" =>
         ~(/\ ArticleOf(p, i).success
           /\ ArticleOf(p, i).contentLength > 0
           /\ ArticleOf(p, i).contentLength >= 100)

\* C11 witness: in one headline a successful article of 99 characters was
\* skipped and a successful article of 100 characters was passed to the model.
C11_Witness ==
  \E p \in Runs : \E i, j \in 1..Len(events[p]) :
    /\ events[p][i].h = events[p][j].h
    /\ events[p][i].type = "skip"
    /\ ArticleOf(p, i).success /\ ArticleOf(p, i).contentLength = 99
    /\ events[p][j].type = "call"
    /\ ArticleOf(p, j).success /\ ArticleOf(p, j).contentLength = 100

\* C20: summarizeHeadlines returns exactly one SummaryResult per input headline,
\* the i-th summary carrying the i-th input headline, and successfulSummaries +
\* failedSummaries = totalHeadlines with successfulSummaries the number of
\* summaries whose success is true.
C20_OneSummaryPerHeadline ==
  \A p \in Runs :
    sumPc[p] = "done" =>
      LET ret == SummarizeReturn(p) IN
        /\ Len(ret.summaries) = Len(scrapedResults[p])
        /\ \A i \in 1..Len(scrapedResults[p]) :
             ret.summaries[i].headline = scrapedResults[p][i].headline
        /\ ret.totalHeadlines = Len(scrapedResults[p])
        /\ ret.successfulSummaries + ret.failedSummaries = ret.totalHeadlines
        /\ ret.successfulSummaries =
             Cardinality({i \in 1..Len(ret.summaries) : ret.summaries[i].success})

\* C20 witness: a run over two headlines returned, the first summarized and the
\* second not.
C20_Witness ==
  \E p \in Runs :
    /\ sumPc[p] = "done"
    /\ Len(scrapedResults[p]) = 2
    /\ summaries[p][1].success
    /\ ~summaries[p][2].success
    /\ SummarizeReturn(p).successfulSummaries = 1
    /\ SummarizeReturn(p).failedSummaries = 1

\* the search history of the headlines whose promise was created so far
Created == DOMAIN searchLog

\* the SearchResult of a settled search
ResultOf(k) ==
  IF k \in DOMAIN chunkPromises THEN chunkPromises[k].result ELSE allResults[k]

\* the chunk a headline index falls in, chunks numbered from 0
ChunkOf(k) == (k - 1) \div maxParallel

\* C12: no search of a later chunk is created (its stagger timer set) before
\* every search of every earlier chunk has settled, with a success, a
\* validation failure or a failure after the last retry.
C12_ChunkBarrier ==
  \A j, k \in Created :
    ChunkOf(j) < ChunkOf(k) => searchLog[j].settled

\* C12 witness: the second chunk was created after a first chunk of two
\* searches, one settled by validation and one after its last failed retry.
C12_Witness ==
  \E i, j, k \in Created :
    /\ ChunkOf(i) = 0 /\ ChunkOf(j) = 0 /\ ChunkOf(k) = 1
    /\ searchLog[i].requests = <<>> /\ searchLog[i].settled
    /\ searchLog[j].requests = <<"fail", "fail", "fail">> /\ searchLog[j].settled
    /\ ~searchLog[k].settled

\* C13: in the sequential mode at most one search is in flight at any time and
\* each search after the first starts at least delayBetweenSearches after the
\* search before it started.
C13_SequentialSpacing ==
  /\ Cardinality({k \in Created : searchLog[k].started >= 0 /\ ~searchLog[k].settled}) <= 1
  /\ \A j, k \in Created :
       (j < k /\ searchLog[k].started >= 0) =>
         searchLog[k].started - searchLog[j].started >= delayBetweenSearches

\* C14: one search makes at most maxRetries HTTP requests, none after a request
\* that succeeded, and when all of them failed it returns success = false,
\* empty results and an error carrying the number of attempts; a search with a
\* valid headline fails in no other way.
C14_BoundedRetries ==
  \A k \in Created :
    LET req == searchLog[k].requests IN
      /\ Len(req) <= maxRetries
      /\ \A i \in 1..(Len(req) - 1) : req[i] = "fail"
      /\ (searchLog[k].settled /\ Len(req) = maxRetries /\ req[Len(req)] = "fail")
           => /\ ResultOf(k).success = FALSE
              /\ ResultOf(k).results = <<>>
              /\ ResultOf(k).error.count = Len(req)
      /\ (searchLog[k].settled /\ req # <<>> /\ ~ResultOf(k).success)
           => /\ Len(req) = maxRetries
              /\ \A i \in 1..Len(req) : req[i] = "fail"
      /\ (searchLog[k].settled /\ req # <<>> /\ req[Len(req)] = "ok")
           => ResultOf(k).success

\* C14 witness: the run returned with one search failed after 3 failed
\* requests and another one successful at its second request.
C14_Witness ==
  /\ searchPc = "done"
  /\ \E j, k \in Created :
       /\ searchLog[j].requests = <<"fail", "fail", "fail">>
       /\ ~searchReturn.results[j].success
       /\ searchReturn.results[j].error.count = 3
       /\ searchLog[k].requests = <<"fail", "ok">>
       /\ searchReturn.results[k].success

\* a headline that is empty or consists of whitespace only
EmptyOrWhitespace(text) == \A i \in 1..Len(text) : text[i] = " "

\* C15: searchHeadline on an empty or whitespace-only headline returns a
\* failure at once: it is settled as soon as it is started, and no HTTP request
\* and no retry is made for it.
C15_BlankHeadlineNoRequest ==
  \A k \in Created :
    (EmptyOrWhitespace(headlines[k].text) /\ searchLog[k].started >= 0) =>
      /\ searchLog[k].settled
      /\ searchLog[k].requests = <<>>
      /\ ResultOf(k).success = FALSE
      /\ ResultOf(k).results = <<>>

\* C15 witness: a whitespace-only headline got its failure while the search of
\* its chunk neighbour was waiting for its first retry.
C15_Witness ==
  \E j, k \in Created :
    /\ headlines[k].text = <<" ">>
    /\ searchLog[k].started >= 0
    /\ ~ResultOf(k).success
    /\ ChunkOf(j) = ChunkOf(k)
    /\ searchLog[j].requests = <<"fail">>
    /\ ~searchLog[j].settled

\* the entries of the first n backend entries that have both a url and a title
WithUrlAndTitle(list, n) ==
  SelectSeq(SubSeq(list, 1, Min(n, Len(list))),
            LAMBDA e : e.url # <<>> /\ e.title # <<>>)

\* C16: the results of a successful search are exactly the first resultCount
\* backend entries without those lacking a url or a title, so there are at
\* most resultCount of them, each has a non-empty url and a non-empty title,
\* and totalFound is their number.
C16_TruncateThenFilter ==
  parsePc = "done" =>
    LET expected == WithUrlAndTitle(backendData.results, resultsCount) IN
      /\ Len(parseReturn.results) = Len(expected)
      /\ \A k \in 1..Len(expected) : parseReturn.results[k].url = expected[k].url
      /\ Len(parseReturn.results) <= resultsCount
      /\ \A k \in 1..Len(parseReturn.results) :
           /\ parseReturn.results[k].url # <<>>
           /\ parseReturn.results[k].title # <<>>
      /\ parseReturn.totalFound = Len(parseReturn.results)

\* the scrapeUrl calls made for the i-th input headline
Issued(i) == {key \in DOMAIN fetches : key[1] = i}

\* the entries of results that carry the i-th input headline
EntriesOf(i) ==
  {k \in 1..Len(results) : results[k].headline = headlineSearchResults[i].headline}

\* C17: a headline whose search failed or returned zero results never gets a
\* scrapeUrl call, and the entry produced for it has searchSuccess = false and
\* an empty scrapedArticles list.
C17_NoResultsNoFetch ==
  \A i \in 1..Len(headlineSearchResults) :
    (headlineSearchResults[i].success = FALSE
       \/ Len(headlineSearchResults[i].results) = 0) =>
      /\ Issued(i) = {}
      /\ \A k \in EntriesOf(i) :
           /\ results[k].searchSuccess = FALSE
           /\ results[k].scrapedArticles = <<>>
      /\ scrapePc = "done" => Cardinality(EntriesOf(i)) = 1

\* C17 witness: the stage returned for a successful search without results
\* next to a headline whose URLs were fetched.
C17_Witness ==
  /\ scrapePc = "done"
  /\ \E i, j \in 1..Len(headlineSearchResults) :
       /\ headlineSearchResults[i].success
       /\ Len(headlineSearchResults[i].results) = 0
       /\ EntriesOf(i) # {}
       /\ Issued(j) # {}

\* C18: for a headline with n >= 1 search results exactly min(urlsPerHeadline, n)
\* fetches are issued, for the first result URLs in source order;
\* scrapedArticles holds their records in that URL order whatever the order in
\* which the fetches settled and whatever their outcome, and scrapedCount is
\* the number of successful records.
C18_FetchesPerHeadline ==
  \A i \in 1..Len(headlineSearchResults) :
    LET n == Len(headlineSearchResults[i].results)
        m == IF n < urlsPerHeadline THEN n ELSE urlsPerHeadline
    IN  (headlineSearchResults[i].success /\ n >= 1) =>
          /\ Issued(i) \subseteq {<<i, k>> : k \in 1..m}
          /\ (scrapePc # "loop" /\ i \in batchStart..BatchEnd) =>
               /\ Issued(i) = {<<i, k>> : k \in 1..m}
               /\ \A k \in 1..m :
                    fetches[<<i, k>>].url = headlineSearchResults[i].results[k].url
          /\ \A e \in EntriesOf(i) :
               /\ Len(results[e].scrapedArticles) = m
               /\ \A k \in 1..m :
                    /\ results[e].scrapedArticles[k].url
                         = headlineSearchResults[i].results[k].url
                    /\ results[e].scrapedArticles[k].success
                         = (fetches[<<i, k>>].state = "ok")
               /\ results[e].scrapedCount =
                    Cardinality({k \in 1..m : results[e].scrapedArticles[k].success})
               /\ results[e].scrapedCount \in 0..m

\* C18 witness: 3 search results, 2 fetches; the fetch of the first URL failed
\* and settled after the fetch of the second URL, which succeeded.
C18_Witness ==
  \E i \in 1..Len(headlineSearchResults) : \E e \in EntriesOf(i) :
    /\ Len(headlineSearchResults[i].results) = 3
    /\ Issued(i) = {<<i, 1>>, <<i, 2>>}
    /\ fetches[<<i, 1>>].overtaken
    /\ ~results[e].scrapedArticles[1].success
    /\ results[e].scrapedArticles[2].success
    /\ results[e].scrapedCount = 1

\* C19: scrapeUrl always settles with a record: it makes at most maxRetries
\* HTTP attempts (2 unless configured), only the last of them may have
\* succeeded, every failed attempt below maxRetries is followed by another
\* attempt, and when all attempts failed the record is {success: false, url,
\* error}.
C19_ScrapeUrlSettles ==
  LET configured == IF optionsMaxRetries = 0 THEN 2 ELSE optionsMaxRetries IN
    /\ Len(urlLog) <= configured
    /\ \A i \in 1..Len(urlLog) : urlLog[i].attempt = i
    /\ \A i \in 1..(Len(urlLog) - 1) : urlLog[i].outcome \notin {"ok", "pending"}
    /\ urlPc # "done" => ENABLED NextScrapeUrl
    /\ urlPc = "done" =>
         LET last == urlLog[Len(urlLog)] IN
           /\ last.outcome # "pending"
           /\ last.outcome = "ok" => urlReturn.success
           /\ last.outcome # "ok" =>
                /\ Len(urlLog) = configured
                /\ urlReturn = [success |-> FALSE, url |-> urlArg,
                                error |-> last.outcome]

\* C19 witness: with the default configuration a 4xx response and then a
\* network error gave the failure record after 2 attempts.
C19_Witness ==
  /\ urlPc = "done"
  /\ optionsMaxRetries = 0
  /\ Len(urlLog) = 2
  /\ urlLog[1].outcome = "status4xx"
  /\ urlLog[2].outcome = "network"
  /\ ~urlReturn.success
  /\ urlReturn.url = urlArg

\* C21: when searchMultipleHeadlinesParallel returns, successfulSearches +
\* failedSearches = totalHeadlines = |results| = |headlines| and
\* successfulSearches is the number of results with success = true.
C21_SearchCounts ==
  searchPc = "done" =>
    /\ searchReturn.successfulSearches + searchReturn.failedSearches
         = searchReturn.totalHeadlines
    /\ searchReturn.totalHeadlines = Len(searchReturn.results)
    /\ Len(searchReturn.results) = Len(headlines)
    /\ searchReturn.successfulSearches =
         Cardinality({i \in 1..Len(searchReturn.results) :
                        searchReturn.results[i].success})

\* C21 witness: the stage returned with a successful search, a search failed
\* after its last retry and a search failed by validation.
C21_Witness ==
  /\ searchPc = "done"
  /\ searchReturn.successfulSearches = 1
  /\ searchReturn.failedSearches = 2
  /\ \E i, j \in 1..Len(searchReturn.results) :
       /\ ~searchReturn.results[i].success /\ searchReturn.results[i].attempts = maxRetries
       /\ ~searchReturn.results[j].success /\ searchReturn.results[j].attempts = 0

\* the searches that have been started and have not settled
InFlightSearches ==
  {k \in Created : searchLog[k].started >= 0 /\ ~searchLog[k].settled}

\* the index of headline k within its chunk (the index argument of chunk.map)
IndexInChunk(k) == (k - 1) % maxParallel

\* C24: at every moment at most maxParallel searches are in flight; the search
\* of the headline at index i of a chunk is not started before i * staggerDelay
\* has elapsed since the chunk was created; the searches of a chunk are started
\* in index order.
C24_StaggeredStarts ==
  /\ Cardinality(InFlightSearches) <= maxParallel
  /\ \A k \in Created :
       searchLog[k].started >= 0 =>
         /\ searchLog[k].started >= searchLog[k].created + IndexInChunk(k) * staggerDelay
         /\ \A j \in Created :
              (ChunkOf(j) = ChunkOf(k) /\ j < k) =>
                /\ searchLog[j].started >= 0
                /\ searchLog[j].started <= searchLog[k].started

\* C24 witness: maxParallel = 2 searches of one chunk are in flight, the second
\* of them started exactly staggerDelay after the chunk was created.
C24_Witness ==
  /\ maxParallel = 2
  /\ \E j, k \in InFlightSearches :
       /\ ChunkOf(j) = ChunkOf(k)
       /\ k = j + 1
       /\ searchLog[j].started = searchLog[j].created
       /\ searchLog[k].started = searchLog[k].created + staggerDelay

\* C25: every request issued by searchHeadline carries a non-empty query
\* after normalization; a headline whose normalized query is empty causes no
\* network call.
C25_NonEmptyQuery ==
  \A k \in Created :
    searchLog[k].requests # <<>> => searchLog[k].query # <<>>

\* C26 as stated: the k-th returned entry has rank k, also when some of the
\* first resultCount backend entries were dropped for lacking a url.
C26_RankIsReturnedPosition ==
  parsePc = "done" =>
    \A k \in 1..Len(parseReturn.results) : parseReturn.results[k].rank = k

\* C26: the rank of a returned entry is the position (from 1) of its backend
\* entry among the first resultCount entries of the response, so ranks grow
\* strictly in the returned order, the k-th returned entry has a rank of at
\* least k, and rank k exactly when no earlier entry was dropped.
C26_RankIsSourcePosition ==
  parsePc = "done" =>
    \A k \in 1..Len(parseReturn.results) :
      LET rank == parseReturn.results[k].rank IN
        /\ rank \in 1..Min(resultsCount, Len(backendData.results))
        /\ backendData.results[rank].url = parseReturn.results[k].url
        /\ rank >= k
        /\ (rank = k <=> \A j \in 1..rank : backendData.results[j].url # <<>>)
        /\ \A j \in 1..(k - 1) : parseReturn.results[j].rank < rank

\* C26 witness: the first backend entry has no url and was dropped, the second
\* one is returned first and carries rank 2.
C26_Witness ==
  /\ parsePc = "done"
  /\ resultsCount >= 2
  /\ Len(backendData.results) >= 2
  /\ backendData.results[1].url = <<>>
  /\ Len(parseReturn.results) >= 1
  /\ parseReturn.results[1].rank = 2
  /\ parseReturn.results[1].url = backendData.results[2].url

\* the number (from 0) of the batch of the i-th input headline
BatchOf(i) == (i - 1) \div batchSize

\* C27: headlines are taken in consecutive batches of 5, and no fetch for a
\* headline of a later batch is started before every fetch of every earlier
\* batch has settled with a success or a failure record.
C27_ScrapeBatchBarrier ==
  /\ batchStart % batchSize = 1
  /\ \A key \in DOMAIN fetches : key[1] < batchStart + batchSize
  /\ \A early, late \in DOMAIN fetches :
       BatchOf(early[1]) < BatchOf(late[1]) => fetches[early].state \in {"ok", "fail"}

\* C27 witness: a fetch of the first headline of the second batch is running,
\* and the first batch had a fetch that failed.
C27_Witness ==
  \E early, late \in DOMAIN fetches :
    /\ BatchOf(early[1]) = 0
    /\ BatchOf(late[1]) = 1
    /\ fetches[early].state = "fail"
    /\ fetches[late].state = "running"

\* the last request of the search of headline k was answered with status 200
LastRequestOk(k) ==
  /\ searchLog[k].requests # <<>>
  /\ searchLog[k].requests[Len(searchLog[k].requests)] = "ok"

\* the record that the search of headline k owes to its own headline and to
\* its own requests
OwnSearchRecord(k) ==
  LET text == headlines[k].text
      record == searchReturn.results[k]
  IN  /\ record.headline = headlines[k].id
      /\ searchLog[k].started >= 0
      /\ searchLog[k].settled
      /\ record.success = (text \notin {<<>>, NotAString} /\ LastRequestOk(k))
      /\ text = NotAString => record.error.text = "headline.trim is not a function"
      /\ text = <<>> => record.error.text = "No headline provided for search"
      /\ (text \notin {<<>>, NotAString} /\ ~LastRequestOk(k)) =>
           /\ record.error.text = "Failed after attempts"
           /\ Len(searchLog[k].requests) = maxRetries

\* the records that the fetches of the i-th input headline owe to themselves
OwnFetchRecords(i) ==
  \A e \in EntriesOf(i) :
    /\ results[e].searchSuccess
    /\ Len(results[e].scrapedArticles) = Cardinality(Issued(i))
    /\ \A key \in Issued(i) :
         /\ results[e].scrapedArticles[key[2]].url = fetches[key].url
         /\ results[e].scrapedArticles[key[2]].success = (fetches[key].state = "ok")

\* C28: a search that fails (validation failure, exhausted retries, exception
\* inside searchHeadline) and a fetch that fails yield a failure record for
\* that unit only: every sibling headline and every sibling URL is still
\* executed and gets the record of its own outcome, and neither stage aborts
\* (it can always take a step until it returns, and returns a full list).
C28_ErrorIsolation ==
  /\ searchPc # "done" => ENABLED NextSearch
  /\ searchPc = "done" =>
       /\ searchReturn = <<>> \/ searchReturn.success
       /\ searchReturn # <<>> =>
            /\ Len(searchReturn.results) = Len(headlines)
            /\ \A k \in 1..Len(headlines) : OwnSearchRecord(k)
  /\ scrapePc # "done" => ENABLED NextScrape
  /\ scrapePc = "done" =>
       /\ Len(results) = Len(headlineSearchResults)
       /\ \A i \in 1..Len(headlineSearchResults) :
            /\ EntriesOf(i) # {}
            /\ Issued(i) # {} => OwnFetchRecords(i)

\* C28 witness: the search stage returned; in one chunk a search failed with
\* an exception and its sibling succeeded, and a search failed after its last
\* retry.
C28_Witness ==
  /\ searchPc = "done"
  /\ searchReturn # <<>>
  /\ \E j, k \in 1..Len(headlines) :
       /\ j # k
       /\ ChunkOf(j) = ChunkOf(k)
       /\ headlines[j].text = NotAString
       /\ ~searchReturn.results[j].success
       /\ searchReturn.results[k].success
  /\ \E k \in 1..Len(headlines) :
       /\ ~searchReturn.results[k].success
       /\ Len(searchLog[k].requests) = maxRetries

\* a response that is empty, contains the sentinel, or is an exception
NotRelevantResponse(resp) ==
  resp.thrown \/ resp.text = <<>> \/ "NOT_RELEVANT" \in Range(resp.text)

\* what such a response does to run p
TreatedAsNotRelevant(p) ==
  /\ summaries'[p] = summaries[p]
  /\ sumSuccessCount'[p] = sumSuccessCount[p]
  /\ hIdx'[p] = hIdx[p]
  /\ aIdx'[p] = aIdx[p] + 1
  /\ sumPc'[p] = "scan"
  /\ events'[p] = Append(events[p], Event("verdict", p, 0, FALSE))

\* the articles of headline h that run p passed to the model
CalledArticles(p, h) == {events[p][i].a : i \in EventsOf(p, h, {"call"})}

\* C29: a model response that is empty or contains NOT_RELEVANT anywhere, and
\* a model call that raises, is treated as not relevant with no summary: the
\* headline is not marked successful by that article, and the scan goes on to
\* the next eligible article of the same headline (in a finished run, every
\* eligible article up to the first one judged relevant was passed on).
C29_NotRelevantContinues ==
  /\ [][\A p \in Runs : \A resp \in Responses :
          (NotRelevantResponse(resp) /\ ModelResponds(p, resp))
            => TreatedAsNotRelevant(p)]_vars
  /\ [](\A p \in Runs : sumPc[p] = "done" =>
          \A h \in 1..Len(summaries[p]) :
            LET called == CalledArticles(p, h)
                judged == {events[p][i].a : i \in JudgedRelevant(p, h)}
            IN  /\ \A i \in EventsOf(p, h, {"verdict"}) :
                     (~events[p][i].relevant /\ summaries[p][h].success)
                       => summaries[p][h].articleIndex # events[p][i].a
                /\ \A a \in 1..Len(scrapedResults[p][h].scrapedArticles) :
                     (/\ ~Ineligible(scrapedResults[p][h].scrapedArticles[a])
                      /\ \A r \in judged : a <= r)
                       => a \in called)

\* C29 witness: the first article of a headline was judged not relevant, the
\* scan went on and its third article, the next eligible one, gave the summary.
C29_Witness ==
  \E p \in Runs : \E h \in 1..Len(summaries[p]) :
    /\ Len(scrapedResults[p][h].scrapedArticles) = 3
    /\ Ineligible(scrapedResults[p][h].scrapedArticles[2])
    /\ CalledArticles(p, h) = {1, 3}
    /\ summaries[p][h].success
    /\ summaries[p][h].articleIndex = 3

C30_ErrorStatusFails ==
  \A i \in 1..Len(urlLog) :
    urlLog[i].outcome \in {"status4xx", "status5xx"} =>
      IF i < Len(urlLog) THEN i < ScraperMaxRetries
      ELSE IF i < ScraperMaxRetries
        THEN urlPc \in {"retrySleep", "sleep"} /\ urlReturn = <<>>
        ELSE /\ urlPc = "done"
             /\ urlReturn = [success |-> FALSE, url |-> urlArg,
                             error |-> urlLog[i].outcome]

\* C30 witness: with the default configuration a 5xx response was retried and
\* the 4xx response of the second attempt gave the failure record.
C30_Witness ==
  /\ urlPc = "done"
  /\ optionsMaxRetries = 0
  /\ Len(urlLog) = 2
  /\ urlLog[1].outcome = "status5xx"
  /\ urlLog[2].outcome = "status4xx"
  /\ urlReturn = [success |-> FALSE, url |-> urlArg, error |-> "status4xx"]

\* C22: a total pipeline failure for one email does not block the other
\* emails of the run: every other email of its batch and of later batches is
\* still processed and its result is in what processEmails returns.
C22_EmailIsolation ==
  emailPc = "done" =>
    \A k \in 1..Len(emails) :
      ~emails[k].fails =>
        /\ k \in DOMAIN emailTasks
        /\ \E j \in 1..Len(emailReturn.results) :
             emailReturn.results[j] = EmailResult(emails[k])


\* the articles of a headline that pass the check of line 295
EligibleArticles(headlineData) ==
  {a \in 1..Len(headlineData.scrapedArticles) :
     /\ headlineData.scrapedArticles[a].success
     /\ headlineData.scrapedArticles[a].contentLength >= 100}

\* C36: every successful SummaryResult points at an eligible article: the
\* article at position sourceArticle.articleIndex of the headline's
\* scrapedArticles has success set and content of length >= 100, its url equals
\* sourceArticle.url, and the number of model calls made for a headline never
\* exceeds the number of its eligible articles.
C36_SummaryPointsAtEligible ==
  \A p \in Runs :
    /\ \A k \in 1..Len(summaries[p]) :
         summaries[p][k].success =>
           /\ summaries[p][k].articleIndex \in EligibleArticles(scrapedResults[p][k])
           /\ scrapedResults[p][k].scrapedArticles[summaries[p][k].articleIndex].url
                = summaries[p][k].url
    /\ \A h \in 1..Len(scrapedResults[p]) :
         Cardinality(EventsOf(p, h, {"call"}))
           <= Cardinality(EligibleArticles(scrapedResults[p][h]))

\* C36 witness: a successful summary of the second of two eligible articles,
\* behind an article whose content is one character short, after two calls.
C36_Witness ==
  \E p \in Runs : \E k \in 1..Len(summaries[p]) :
    /\ summaries[p][k].success
    /\ Len(scrapedResults[p][k].scrapedArticles) = 3
    /\ scrapedResults[p][k].scrapedArticles[1].success
    /\ scrapedResults[p][k].scrapedArticles[1].contentLength = 99
    /\ summaries[p][k].articleIndex = 3
    /\ summaries[p][k].url = <<k, 3>>
    /\ Cardinality(EventsOf(p, k, {"call"})) = 2


C37_SearchTerminates ==
  /\ <>(searchPc = "done")
  /\ [][chunkStart' # chunkStart => chunkStart' > chunkStart]_vars
  /\ [][searchPc = "await" /\ searchPc' = "loop" => chunkStart' > chunkStart]_vars
  /\ [](\A k \in DOMAIN searchLog : Len(searchLog[k].requests) <= maxRetries)

\* C37 witness: the stage has returned after more than one chunk, one search
\* of the last chunk having failed maxRetries times.
C37_Witness ==
  /\ searchPc = "done"
  /\ maxParallel < Len(headlines)
  /\ chunkStart > Len(headlines)
  /\ \E k \in DOMAIN searchLog :
       /\ k > maxParallel
       /\ Len(searchLog[k].requests) = maxRetries
       /\ \A j \in 1..maxRetries : searchLog[k].requests[j] = "fail"


\* the text holds the phrase somewhere, in any letter case
Occurs(phrase, text) ==
  \E i \in 1..Len(text) : MatchesAt(SubSeq(text, i, Len(text)), phrase)

\* C35: the text returned by cleanText contains no occurrence, in any letter
\* case, of any phrase of the boilerplate list and no run of more than one
\* whitespace character, for every input text, so cleanText applied to its
\* own output returns it unchanged.
C35_CleanTextFixpoint ==
  textPc = "done" =>
    /\ \A a \in 1..Len(Artifacts) : ~Occurs(Artifacts[a], textReturn)
    /\ \A i \in 1..(Len(textReturn) - 1) :
         ~(textReturn[i] \in WhiteSpace /\ textReturn[i + 1] \in WhiteSpace)
    /\ textFirst # <<>> => textReturn = textArg


\* the selectors whose matched element has trimmed text longer than 50 characters
LongEnough == {k \in 1..Len(Selectors) : page.matches[k].exists /\ page.matches[k].length > 50}

\* C34: extractContent uses as container the element of the first selector, in
\* list order, whose matched element has trimmed text longer than 50
\* characters; when no selector has such an element (including when some
\* selector matches an element with at most 50 characters) the content is the
\* concatenation of all page <p> elements whose text is longer than 30
\* characters.
C34_ContainerSelection ==
  pagePc = "done" =>
    IF LongEnough # {}
      THEN pageReturn =
             cleanText(ContainerText(
               page.matches[CHOOSE k \in LongEnough : \A j \in LongEnough : k <= j]))
      ELSE pageReturn = cleanText(FallbackText(page))


\* C38: findOrCreateUser is safe under interleaving: when two emails of the
\* same batch come from the same not-yet-known sender and their
\* findOrCreateUser calls interleave, both calls return the user record,
\* exactly one user record exists afterwards, and neither email's processing
\* fails because of the other.
C38_FindOrCreateInterleaved ==
  \A c, d \in DOMAIN userArg :
    (/\ c # d
     /\ userArg[c] = userArg[d]
     /\ userPc[c] \in {"done", "threw"}
     /\ userPc[d] \in {"done", "threw"})
    => /\ userPc[c] = "done" /\ userReturn[c] = UserRow(userArg[c])
       /\ userPc[d] = "done" /\ userReturn[d] = UserRow(userArg[d])
       /\ Cardinality(FindUnique(userArg[c])) = 1


\* the messages the call has removed the UNREAD label from
MarkedRead == {m \in 1..Len(messages) : messages[m].id \notin unread}

\* C39: no forwarded email is lost by retrieval: every message that
\* getForwardedEmails marks as read is contained in the list of emails that
\* the same call returns to the pipeline, also when retrieving or marking a
\* later message of the same call fails.
C39_NoEmailLost ==
  mailPc \in {"done", "threw"} =>
    \A m \in MarkedRead :
      /\ mailPc = "done"
      /\ \E j \in 1..Len(mailReturn) : mailReturn[j].id = messages[m].id


\* positions of the history of processSingleEmail with the given entry
LogPositions(entry) == {i \in 1..Len(procLog) : procLog[i] = entry}

\* every `later` entry of the history has an `earlier` entry before it
Precedes(earlier, later) ==
  \A j \in LogPositions(later) : \E i \in LogPositions(earlier) : i < j

\* the search stage returned to processSingleEmail with success: false
SearchReportedFailure ==
  LogPositions(Reported("searchMultipleHeadlinesParallel", FALSE)) # {}

\* C31: for one email the stages run strictly downstream and in order:
\* scraping starts only after the search stage has returned and its results
\* were saved, summarization starts only after the scraped results were saved,
\* and the digest notification is sent only after the summaries were saved;
\* when the search stage reports failure neither scraping, summarization nor
\* the notification happens.
C31_StagesInOrder ==
  /\ Precedes(Reported("searchMultipleHeadlinesParallel", TRUE),
              Settled("saveSearchResults", TRUE))
  /\ Precedes(Settled("saveSearchResults", TRUE), Called("scrapeHeadlineResults"))
  /\ LogPositions(Called("scrapeHeadlineResults")) # {}
       => procSaved["searchResults"].saved
  /\ Precedes(Settled("saveScrapedResults", TRUE), Called("summarizeHeadlines"))
  /\ LogPositions(Called("summarizeHeadlines")) # {}
       => procSaved["scrapedResults"].saved
  /\ Precedes(Settled("saveSummaries", TRUE), Called("sendFinalDigestReply"))
  /\ LogPositions(Called("sendFinalDigestReply")) # {}
       => procSaved["summaries"].saved
  /\ SearchReportedFailure
       => /\ LogPositions(Called("scrapeHeadlineResults")) = {}
          /\ LogPositions(Called("summarizeHeadlines")) = {}
          /\ LogPositions(Called("sendFinalDigestReply")) = {}

\* C31 witness: the email went through every stage and the notification was
\* sent after the summaries were saved.
C31_Witness ==
  /\ procPc = "returned"
  /\ LogPositions(Called("sendFinalDigestReply")) # {}
  /\ \A t \in Tables : procSaved[t].saved
  /\ procSaved["summaries"].successful > 0

\* the stage a call of processSingleEmail belongs to, in pipeline order
StageOf(step) ==
  CASE step \in {"extractNewsHeadlines", "saveHeadlines"} -> 1
    [] step \in {"searchMultipleHeadlinesParallel", "saveSearchResults"} -> 2
    [] step \in {"scrapeHeadlineResults", "saveScrapedResults"} -> 3
    [] step \in {"summarizeHeadlines", "saveSummaries"} -> 4
    [] step = "getEmailProcessingData" -> 5
    [] OTHER -> 0

TableStage(table) ==
  CASE table = "headlines" -> 1
    [] table = "searchResults" -> 2
    [] table = "scrapedResults" -> 3
    [] table = "summaries" -> 4

\* the call that saves the rows of a table
SaveOf(table) ==
  CASE table = "headlines" -> "saveHeadlines"
    [] table = "searchResults" -> "saveSearchResults"
    [] table = "scrapedResults" -> "saveScrapedResults"
    [] table = "summaries" -> "saveSummaries"

\* C33: when a stage aborts with an exception for one email, everything saved
\* by the earlier stages of that email (headlines, search results, scraped
\* results) stays saved unchanged, and nothing of the aborted or later stages
\* is saved for it.
C33_AbortKeepsEarlierSaves ==
  /\ [][\A t \in Tables : procSaved[t].saved => procSaved'[t] = procSaved[t]]_vars
  /\ [](procPc = "threw" =>
          \A t \in Tables :
            /\ TableStage(t) >= StageOf(procLog[Len(procLog)].step)
                 => ~procSaved[t].saved
            /\ LogPositions(Settled(SaveOf(t), TRUE)) # {} => procSaved[t].saved)

\* C33 witness: summarizeHeadlines threw after the headlines, the search
\* results and the scraped results were saved.
C33_Witness ==
  /\ procPc = "threw"
  /\ procLog[Len(procLog)] = Settled("summarizeHeadlines", FALSE)
  /\ procSaved["headlines"].saved
  /\ procSaved["searchResults"].saved
  /\ procSaved["scrapedResults"].saved
  /\ ~procSaved["summaries"].saved

=============================================================================
